---- MODULE Spec2Model ----
(***************************************************************************)
(* A model of the Hangman game engine of jwodder/hangman (src/model.rs).   *)
(*                                                                         *)
(* Characters are Unicode code points (integers).  Rust's Option<T> is a   *)
(* sequence of length at most one: None is << >> and Some(x) is <<x>>.     *)
(* Enum variants are records with a "kind" field.                          *)
(***************************************************************************)
EXTENDS Integers, Sequences, FiniteSets, TLC

(***************************************************************************)
(* Bounds of the model.                                                    *)
(***************************************************************************)
\* Longest secret word that is played.
MaxWordLen == 2
\* The longest alphabet played is the first AlphabetLen letters of
\* ASCII_ALPHABET; 8 letters leave room for six wrong guesses against a word
\* with two distinct letters.
AlphabetLen == 8

(***************************************************************************)
(* Option<T>                                                               *)
(***************************************************************************)
None == << >>
Some(x) == <<x>>
is_some(o) == o # None
is_none(o) == o = None

Min(a, b) == IF a <= b THEN a ELSE b
Range(s) == {s[i] : i \in DOMAIN s}

(***************************************************************************)
(* Characters.                                                             *)
(***************************************************************************)
\* model.rs:7, the 26 upper-case ASCII letters 'A'..'Z'
ASCII_ALPHABET == [i \in 1..26 |-> 64 + i]

\* Variant: char::to_uppercase on Latin-1 instead of to_ascii_uppercase, which
\* also folds 'à'..'þ' (224..254).
normalize_char_latin1(c) ==
    IF (c >= 97 /\ c <= 122) \/ (c >= 224 /\ c <= 254) THEN c - 32 ELSE c

\* char::to_ascii_uppercase: 'a'..='z' (97..122) lose bit 0x20, every other
\* code point is returned as it is.
normalize_char(c) == IF c >= 97 /\ c <= 122 THEN c - 32 ELSE c

\* Code points used below: 'A' 65, 'B' 66, 'a' 97, 'b' 98, '-' 45,
\* 'é' 233 (U+00E9) and 'É' 201 (U+00C9); 233 - 32 = 201, so a
\* normalisation that went beyond ASCII would merge the last two.
WordChars == {65, 66, 97, 233}

\* Word::from_str rejects the empty string, so a Word has at least one char.
Words == UNION {[1..n -> WordChars] : n \in 1..MaxWordLen}

\* Alphabet strings handed to Hangman::new: a prefix of ASCII_ALPHABET, a
\* string with lower case and a repeated letter ("abA"), a string of
\* non-letters ("é-") and the empty string.
Alphabets == {SubSeq(ASCII_ALPHABET, 1, AlphabetLen), <<97, 98, 65>>, <<233, 45>>, << >>}

\* Characters the player may type.
GuessChars == Range(SubSeq(ASCII_ALPHABET, 1, AlphabetLen)) \cup {97, 98, 45, 233, 201}

(***************************************************************************)
(* Gallows                                                                 *)
(***************************************************************************)
\* The variants of enum Gallows in declaration order (derive(Ord)).
Gallows == <<"Start", "AddHead", "AddTorso", "AddLeftArm", "AddRightArm", "AddLeftLeg", "AddRightLeg">>

\* Variant: END names the stage before the last.
END_early == "AddLeftLeg"

END == "AddRightLeg"

\* Variant: AddHead is followed by AddLeftArm, leaving out AddTorso.
succ_skipping(g) ==
    CASE g = "Start" -> Some("AddHead")
      [] g = "AddHead" -> Some("AddLeftArm")
      [] g = "AddTorso" -> Some("AddLeftArm")
      [] g = "AddLeftArm" -> Some("AddRightArm")
      [] g = "AddRightArm" -> Some("AddLeftLeg")
      [] g = "AddLeftLeg" -> Some("AddRightLeg")
      [] g = "AddRightLeg" -> None

\* Variant: the last stage is followed by the first.
succ_wrapping(g) ==
    CASE g = "Start" -> Some("AddHead")
      [] g = "AddHead" -> Some("AddTorso")
      [] g = "AddTorso" -> Some("AddLeftArm")
      [] g = "AddLeftArm" -> Some("AddRightArm")
      [] g = "AddRightArm" -> Some("AddLeftLeg")
      [] g = "AddLeftLeg" -> Some("AddRightLeg")
      [] g = "AddRightLeg" -> Some("Start")

succ(g) ==
    CASE g = "Start" -> Some("AddHead")
      [] g = "AddHead" -> Some("AddTorso")
      [] g = "AddTorso" -> Some("AddLeftArm")
      [] g = "AddLeftArm" -> Some("AddRightArm")
      [] g = "AddRightArm" -> Some("AddLeftLeg")
      [] g = "AddLeftLeg" -> Some("AddRightLeg")
      [] g = "AddRightLeg" -> None

(***************************************************************************)
(* Fate, Lost, Response                                                    *)
(***************************************************************************)
Lost(w) == [word |-> w]
Won == [kind |-> "Won"]
FateLost(about) == [kind |-> "Lost", about |-> about]

GoodGuess(g, count, won) == [kind |-> "GoodGuess", guess |-> g, count |-> count, won |-> won]
BadGuess(g, lost) == [kind |-> "BadGuess", guess |-> g, lost |-> lost]
AlreadyGuessed(g) == [kind |-> "AlreadyGuessed", guess |-> g]
InvalidGuess(g) == [kind |-> "InvalidGuess", guess |-> g]
GameOver == [kind |-> "GameOver"]

(***************************************************************************)
(* Text.  A string is the sequence of its code points.  An escape sequence *)
(* is ESC (27), '[' (91), parameter characters (digits and ';') and one    *)
(* final character; the console crate gives it no width and never cuts it. *)
(* Every other character of the model takes one column.                    *)
(***************************************************************************)
\* The index of the last character of the escape sequence that starts at i.
RECURSIVE ansi_end(_, _)
ansi_end(s, j) ==
    IF j >= Len(s) THEN Len(s)
    ELSE IF s[j + 1] = 91 \/ s[j + 1] = 59 \/ (s[j + 1] >= 48 /\ s[j + 1] <= 57)
    THEN ansi_end(s, j + 1)
    ELSE j + 1

\* console::measure_text_width from position i on: the columns the text
\* takes once the escape sequences are taken out.
RECURSIVE width_from(_, _)
width_from(s, i) ==
    IF i > Len(s) THEN 0
    ELSE IF s[i] = 27 THEN width_from(s, ansi_end(s, i) + 1)
    ELSE 1 + width_from(s, i + 1)

\* Variant: every character of the text takes a column, those of the escape
\* sequences too.
measure_text_width_raw(s) == Len(s)

measure_text_width(s) == width_from(s, 1)

\* console::truncate_str(s, width, "") from position i on with `room`
\* columns left: text is kept while there is room, escape sequences are
\* kept wherever they are.
RECURSIVE truncate_from(_, _, _)
truncate_from(s, i, room) ==
    IF i > Len(s) THEN << >>
    ELSE IF s[i] = 27
    THEN SubSeq(s, i, ansi_end(s, i)) \o truncate_from(s, ansi_end(s, i) + 1, room)
    ELSE IF room > 0 THEN <<s[i]>> \o truncate_from(s, i + 1, room - 1)
    ELSE truncate_from(s, i + 1, 0)

truncate_str(s, width) == truncate_from(s, 1, width)

\* usize::saturating_sub
saturating_sub(a, b) == IF a >= b THEN a - b ELSE 0

\* " ".repeat(n)
spaces(n) == [i \in 1..n |-> 32]

\* The decimal digits of a usize.
RECURSIVE decimal(_)
decimal(n) == IF n < 10 THEN <<48 + n>> ELSE decimal(n \div 10) \o <<48 + (n % 10)>>

\* {c:?} of a char that needs no escaping: the character between quotes.
debug_char(c) == <<39, c, 39>>

(***************************************************************************)
(* Frame and Line                                                          *)
(***************************************************************************)
\* Frame::push_in_width
push_in_width(frame, content, width) ==
    Append(frame, [content |-> content, center_in_width |-> Some(width)])

\* Frame::push_centered
push_centered(frame, content) ==
    Append(frame, [content |-> content, center_in_width |-> None])

\* Line::render with the whole of the free width as the left margin.
line_render_flush(line, max_width) ==
    LET my_width == IF is_some(line.center_in_width) THEN line.center_in_width[1]
                    ELSE measure_text_width(line.content)
        left_margin == saturating_sub(max_width, my_width)
    IN  <<left_margin, truncate_str(line.content, max_width)>>

\* Line::render: the left margin and the text to print.
line_render(line, max_width) ==
    LET my_width == IF is_some(line.center_in_width) THEN line.center_in_width[1]
                    ELSE measure_text_width(line.content)
        left_margin == saturating_sub(max_width, my_width) \div 2
    IN  <<left_margin, truncate_str(line.content, max_width)>>

\* Frame::lines_in_area with no top margin.
lines_in_area_top(frame, width, height) ==
    LET taken == Min(Len(frame), height)
    IN  [k \in 1..taken |->
           LET xt == line_render(frame[k], width)
           IN  <<k - 1, xt[1], xt[2]>>]

\* Frame::lines_in_area: the (y, x, text) of the lines to print.
lines_in_area(frame, width, height) ==
    LET top_margin == saturating_sub(height, Len(frame)) \div 2
        taken == Min(Len(frame), height)
    IN  [k \in 1..taken |->
           LET xt == line_render(frame[k], width)
           IN  <<top_margin + (k - 1), xt[1], xt[2]>>]

(***************************************************************************)
(* CharDisplay and Message                                                 *)
(***************************************************************************)
Plain(ch) == [kind |-> "Plain", ch |-> ch]
Highlighted(ch) == [kind |-> "Highlighted", ch |-> ch]
Blank == [kind |-> "Blank", ch |-> 0]

\* Display for CharDisplay: ch, ESC[1m ch ESC[m, or '_'.
char_display_fmt(cd) ==
    CASE cd.kind = "Plain" -> <<cd.ch>>
      [] cd.kind = "Highlighted" -> <<27, 91, 49, 109>> \o <<cd.ch>> \o <<27, 91, 109>>
      [] cd.kind = "Blank" -> <<95>>

MsgStart == [kind |-> "Start", guess |-> 0, count |-> 0]
MsgGoodGuess(g, n) == [kind |-> "GoodGuess", guess |-> g, count |-> n]
MsgBadGuess(g) == [kind |-> "BadGuess", guess |-> g, count |-> 0]
MsgAlreadyGuessed(g) == [kind |-> "AlreadyGuessed", guess |-> g, count |-> 0]
MsgInvalidGuess(g) == [kind |-> "InvalidGuess", guess |-> g, count |-> 0]
MsgWon == [kind |-> "Won", guess |-> 0, count |-> 0]
MsgLost == [kind |-> "Lost", guess |-> 0, count |-> 0]

\* Message::is_game_over
is_game_over(m) == m.kind \in {"Won", "Lost"}

\* Variant: only the lost game has advanced the gallows.
gallows_advanced_lost_only(m) == m.kind = "Lost"

\* Message::gallows_advanced
gallows_advanced(m) == m.kind \in {"BadGuess", "Lost"}

\* Display for Message
message_fmt(m) ==
    CASE m.kind = "Start" ->
           \* "Try to guess the secret word!"
           <<84, 114, 121, 32, 116, 111, 32, 103, 117, 101, 115, 115, 32, 116, 104, 101, 32, 115, 101, 99, 114, 101, 116, 32, 119, 111, 114, 100, 33>>
      [] m.kind = "GoodGuess" ->
           \* "Correct!  There ", then "is 1 'g' " or "are n 'g's ", then "in the word."
           <<67, 111, 114, 114, 101, 99, 116, 33, 32, 32, 84, 104, 101, 114, 101, 32>>
             \o (IF m.count = 1
                 THEN <<105, 115, 32, 49, 32>> \o debug_char(m.guess) \o <<32>>
                 ELSE <<97, 114, 101, 32>> \o decimal(m.count) \o <<32>> \o debug_char(m.guess) \o <<115, 32>>)
             \o <<105, 110, 32, 116, 104, 101, 32, 119, 111, 114, 100, 46>>
      [] m.kind = "BadGuess" ->
           \* "Wrong!  There's no 'g' in the word."
           <<87, 114, 111, 110, 103, 33, 32, 32, 84, 104, 101, 114, 101, 39, 115, 32, 110, 111, 32>> \o debug_char(m.guess) \o <<32, 105, 110, 32, 116, 104, 101, 32, 119, 111, 114, 100, 46>>
      [] m.kind = "AlreadyGuessed" ->
           \* "You already guessed 'g'."
           <<89, 111, 117, 32, 97, 108, 114, 101, 97, 100, 121, 32, 103, 117, 101, 115, 115, 101, 100, 32>> \o debug_char(m.guess) \o <<46>>
      [] m.kind = "InvalidGuess" ->
           \* "'g' is not an option."
           debug_char(m.guess) \o <<32, 105, 115, 32, 110, 111, 116, 32, 97, 110, 32, 111, 112, 116, 105, 111, 110, 46>>
      [] m.kind = "Won" ->
           \* "You win!"
           <<89, 111, 117, 32, 119, 105, 110, 33>>
      [] m.kind = "Lost" ->
           \* "Oh dear, you are dead!"
           <<79, 104, 32, 100, 101, 97, 114, 44, 32, 121, 111, 117, 32, 97, 114, 101, 32, 100, 101, 97, 100, 33>>

(***************************************************************************)
(* Content                                                                 *)
(***************************************************************************)
GALLOWS_HEIGHT == 5
GALLOWS_WIDTH == 8
LETTER_COLUMNS == 6
GUTTER == 4
WIDTH == GALLOWS_WIDTH + GUTTER + (LETTER_COLUMNS * 2) - 1
HEIGHT == GALLOWS_HEIGHT + 8

\* "Hint: "
HintPrefix == <<72, 105, 110, 116, 58, 32>>

\* "Press the Any Key to exit."
ExitPrompt == <<80, 114, 101, 115, 115, 32, 116, 104, 101, 32, 65, 110, 121, 32, 75, 101, 121, 32, 116, 111, 32, 101, 120, 105, 116, 46>>

\* Variant: the art of the empty gallows for every stage, its rows ending
\* at their last drawing character.
draw_gallows_trimmed(g, highlight) ==
    <<<<32, 32, 9484, 9472, 9472, 9472, 9488>>,
      <<32, 32, 9474>>,
      <<32, 32, 9474>>,
      <<32, 32, 9474>>,
      <<9472, 9472, 9524, 9472, 9472>>>>

\* Content::draw_gallows: the five rows of a stage.  The drawing characters
\* are U+250C (9484), U+2500 (9472), U+2510 (9488), U+2502 (9474) and
\* U+2534 (9524); the part a stage adds is wrapped in ESC[1;31m .. ESC[m
\* when highlight is set.
draw_gallows(g, highlight) ==
    CASE g = "Start" ->
         <<<<32, 32, 9484, 9472, 9472, 9472, 9488, 32>>,
           <<32, 32, 9474, 32, 32, 32, 32, 32>>,
           <<32, 32, 9474, 32, 32, 32, 32, 32>>,
           <<32, 32, 9474, 32, 32, 32, 32, 32>>,
           <<9472, 9472, 9524, 9472, 9472, 32, 32, 32>>>>
      [] g = "AddHead" /\ ~highlight ->
         <<<<32, 32, 9484, 9472, 9472, 9472, 9488, 32>>,
           <<32, 32, 9474, 32, 32, 32, 111, 32>>,
           <<32, 32, 9474, 32, 32, 32, 32, 32>>,
           <<32, 32, 9474, 32, 32, 32, 32, 32>>,
           <<9472, 9472, 9524, 9472, 9472, 32, 32, 32>>>>
      [] g = "AddHead" /\ highlight ->
         <<<<32, 32, 9484, 9472, 9472, 9472, 9488, 32>>,
           <<32, 32, 9474, 32, 32, 32, 27, 91, 49, 59, 51, 49, 109, 111, 27, 91, 109, 32>>,
           <<32, 32, 9474, 32, 32, 32, 32, 32>>,
           <<32, 32, 9474, 32, 32, 32, 32, 32>>,
           <<9472, 9472, 9524, 9472, 9472, 32, 32, 32>>>>
      [] g = "AddTorso" /\ ~highlight ->
         <<<<32, 32, 9484, 9472, 9472, 9472, 9488, 32>>,
           <<32, 32, 9474, 32, 32, 32, 111, 32>>,
           <<32, 32, 9474, 32, 32, 32, 124, 32>>,
           <<32, 32, 9474, 32, 32, 32, 32, 32>>,
           <<9472, 9472, 9524, 9472, 9472, 32, 32, 32>>>>
      [] g = "AddTorso" /\ highlight ->
         <<<<32, 32, 9484, 9472, 9472, 9472, 9488, 32>>,
           <<32, 32, 9474, 32, 32, 32, 111, 32>>,
           <<32, 32, 9474, 32, 32, 32, 27, 91, 49, 59, 51, 49, 109, 124, 27, 91, 109, 32>>,
           <<32, 32, 9474, 32, 32, 32, 32, 32>>,
           <<9472, 9472, 9524, 9472, 9472, 32, 32, 32>>>>
      [] g = "AddLeftArm" /\ ~highlight ->
         <<<<32, 32, 9484, 9472, 9472, 9472, 9488, 32>>,
           <<32, 32, 9474, 32, 32, 32, 111, 32>>,
           <<32, 32, 9474, 32, 32, 47, 124, 32>>,
           <<32, 32, 9474, 32, 32, 32, 32, 32>>,
           <<9472, 9472, 9524, 9472, 9472, 32, 32, 32>>>>
      [] g = "AddLeftArm" /\ highlight ->
         <<<<32, 32, 9484, 9472, 9472, 9472, 9488, 32>>,
           <<32, 32, 9474, 32, 32, 32, 111, 32>>,
           <<32, 32, 9474, 32, 32, 27, 91, 49, 59, 51, 49, 109, 47, 27, 91, 109, 124, 32>>,
           <<32, 32, 9474, 32, 32, 32, 32, 32>>,
           <<9472, 9472, 9524, 9472, 9472, 32, 32, 32>>>>
      [] g = "AddRightArm" /\ ~highlight ->
         <<<<32, 32, 9484, 9472, 9472, 9472, 9488, 32>>,
           <<32, 32, 9474, 32, 32, 32, 111, 32>>,
           <<32, 32, 9474, 32, 32, 47, 124, 92>>,
           <<32, 32, 9474, 32, 32, 32, 32, 32>>,
           <<9472, 9472, 9524, 9472, 9472, 32, 32, 32>>>>
      [] g = "AddRightArm" /\ highlight ->
         <<<<32, 32, 9484, 9472, 9472, 9472, 9488, 32>>,
           <<32, 32, 9474, 32, 32, 32, 111, 32>>,
           <<32, 32, 9474, 32, 32, 47, 124, 27, 91, 49, 59, 51, 49, 109, 92, 27, 91, 109>>,
           <<32, 32, 9474, 32, 32, 32, 32, 32>>,
           <<9472, 9472, 9524, 9472, 9472, 32, 32, 32>>>>
      [] g = "AddLeftLeg" /\ ~highlight ->
         <<<<32, 32, 9484, 9472, 9472, 9472, 9488, 32>>,
           <<32, 32, 9474, 32, 32, 32, 111, 32>>,
           <<32, 32, 9474, 32, 32, 47, 124, 92>>,
           <<32, 32, 9474, 32, 32, 47, 32, 32>>,
           <<9472, 9472, 9524, 9472, 9472, 32, 32, 32>>>>
      [] g = "AddLeftLeg" /\ highlight ->
         <<<<32, 32, 9484, 9472, 9472, 9472, 9488, 32>>,
           <<32, 32, 9474, 32, 32, 32, 111, 32>>,
           <<32, 32, 9474, 32, 32, 47, 124, 92>>,
           <<32, 32, 9474, 32, 32, 27, 91, 49, 59, 51, 49, 109, 47, 27, 91, 109, 32, 32>>,
           <<9472, 9472, 9524, 9472, 9472, 32, 32, 32>>>>
      [] g = "AddRightLeg" /\ ~highlight ->
         <<<<32, 32, 9484, 9472, 9472, 9472, 9488, 32>>,
           <<32, 32, 9474, 32, 32, 32, 111, 32>>,
           <<32, 32, 9474, 32, 32, 47, 124, 92>>,
           <<32, 32, 9474, 32, 32, 47, 32, 92>>,
           <<9472, 9472, 9524, 9472, 9472, 32, 32, 32>>>>
      [] g = "AddRightLeg" /\ highlight ->
         <<<<32, 32, 9484, 9472, 9472, 9472, 9488, 32>>,
           <<32, 32, 9474, 32, 32, 32, 111, 32>>,
           <<32, 32, 9474, 32, 32, 47, 124, 92>>,
           <<32, 32, 9474, 32, 32, 47, 32, 27, 91, 49, 59, 51, 49, 109, 92, 27, 91, 109>>,
           <<9472, 9472, 9524, 9472, 9472, 32, 32, 32>>>>

\* `guess_options.chunks(LETTER_COLUMNS)`: the i-th chunk, i from 0.
chunk(opts, i) ==
    SubSeq(opts, i * LETTER_COLUMNS + 1, Min(Len(opts), (i + 1) * LETTER_COLUMNS))

chunk_count(opts) == (Len(opts) + LETTER_COLUMNS - 1) \div LETTER_COLUMNS

\* The letters of one chunk with the used ones left out.
RECURSIVE letter_row_compact(_)
letter_row_compact(optchunk) ==
    IF optchunk = << >> THEN << >>
    ELSE LET opt == optchunk[Len(optchunk)]
             before == letter_row_compact(SubSeq(optchunk, 1, Len(optchunk) - 1))
         IN  IF is_none(opt) THEN before
             ELSE IF before = << >> THEN <<opt[1]>> ELSE before \o <<32, opt[1]>>

\* The letters of one chunk with a space between them, a used letter
\* (None) being a space itself.
RECURSIVE letter_row(_)
letter_row(optchunk) ==
    IF optchunk = << >> THEN << >>
    ELSE LET opt == optchunk[Len(optchunk)]
             ch == IF is_some(opt) THEN opt[1] ELSE 32
             before == SubSeq(optchunk, 1, Len(optchunk) - 1)
         IN  IF before = << >> THEN <<ch>> ELSE letter_row(before) \o <<32, ch>>

\* The rows of the gallows with the gutter and the letters: a row of the
\* gallows where there is one, twelve spaces where there is none.
hud_lines(c) ==
    LET art == draw_gallows(c.gallows, gallows_advanced(c.message))
        n == IF chunk_count(c.guess_options) > GALLOWS_HEIGHT
             THEN chunk_count(c.guess_options) ELSE GALLOWS_HEIGHT
    IN  [k \in 1..n |->
           (IF k <= GALLOWS_HEIGHT THEN art[k] \o spaces(GUTTER)
            ELSE spaces(GALLOWS_WIDTH + GUTTER))
           \o (IF k <= chunk_count(c.guess_options)
               THEN letter_row(chunk(c.guess_options, k - 1)) ELSE << >>)]

\* The characters of word_display with a space between them.
RECURSIVE word_line(_)
word_line(wd) ==
    IF wd = << >> THEN << >>
    ELSE LET before == SubSeq(wd, 1, Len(wd) - 1)
         IN  IF before = << >> THEN char_display_fmt(wd[1])
             ELSE word_line(before) \o <<32>> \o char_display_fmt(wd[Len(wd)])

RECURSIVE push_all_in_width(_, _, _)
push_all_in_width(frame, lns, width) ==
    IF lns = << >> THEN frame
    ELSE push_all_in_width(push_in_width(frame, lns[1], width), Tail(lns), width)

\* render without the blank line that stands for the prompt.
render_short(c) ==
    LET f1 == push_in_width(<< >>, IF is_some(c.hint) THEN HintPrefix \o c.hint[1] ELSE << >>, WIDTH)
        f2 == push_in_width(f1, << >>, WIDTH)
        f3 == push_all_in_width(f2, hud_lines(c), WIDTH)
        f4 == push_in_width(f3, << >>, WIDTH)
        f5 == push_centered(f4, word_line(c.word_display))
        f6 == push_in_width(f5, << >>, WIDTH)
        f7 == push_centered(f6, message_fmt(c.message))
        f8 == push_in_width(f7, << >>, WIDTH)
    IN  IF is_game_over(c.message)
        THEN push_centered(f8, ExitPrompt)
        ELSE f8

\* Content::render
render(c) ==
    LET f1 == push_in_width(<< >>, IF is_some(c.hint) THEN HintPrefix \o c.hint[1] ELSE << >>, WIDTH)
        f2 == push_in_width(f1, << >>, WIDTH)
        f3 == push_all_in_width(f2, hud_lines(c), WIDTH)
        f4 == push_in_width(f3, << >>, WIDTH)
        f5 == push_centered(f4, word_line(c.word_display))
        f6 == push_in_width(f5, << >>, WIDTH)
        f7 == push_centered(f6, message_fmt(c.message))
        f8 == push_in_width(f7, << >>, WIDTH)
    IN  IF is_game_over(c.message)
        THEN push_centered(f8, ExitPrompt)
        ELSE push_in_width(f8, << >>, WIDTH)

(***************************************************************************)
(* Hangman                                                                 *)
(***************************************************************************)
VARIABLES
    pc,             \* "new" before Hangman::new, then "playing" or "NoAlphabet"
    in_word,        \* the `word` argument of Hangman::new
    alphabet,       \* the `alphabet` argument of Hangman::new
    letters,        \* Hangman.letters: BTreeMap<char, bool>
    gallows,        \* Hangman.gallows
    word,           \* Hangman.word
    known_letters,  \* Hangman.known_letters
    fate,           \* Hangman.fate: Option<Fate>
    arg,            \* the argument of the latest call of guess, if any
    response,       \* the value returned by the latest call of guess, if any
    history,        \* the calls of guess so far, where a scenario is played
    cpc,            \* where the code that drives the Screen stands
    content,        \* the Content latest handed to the Screen, if any
    columns,        \* Screen.columns
    rows,           \* Screen.rows
    frame,          \* Screen.frame
    painted,        \* the (y, x, text) the latest draw printed
    hint,           \* Controller.hint
    event,          \* the event that the latest read() returned, if any
    wrote,          \* what the latest step printed, the modes not counted
    result,         \* the value that Controller::run returned, if any
    term,           \* the modes of the terminal
    restore         \* the restoring operations performed, with their outcome

engine_vars == <<pc, in_word, alphabet, letters, gallows, word, known_letters, fate, arg, response>>
scenario_vars == <<history>>
session_vars == <<hint, event, wrote, result, term, restore>>
screen_vars == <<cpc, content, columns, rows, frame, painted, session_vars>>

vars == <<engine_vars, scenario_vars, screen_vars>>

\* The struct as one value.
Hangman == [letters |-> letters, gallows |-> gallows, word |-> word,
            known_letters |-> known_letters, fate |-> fate]

\* Variant: new fails when any position starts revealed (any for all).
new_any(w, alpha) ==
    LET ls == [c \in {normalize_char(alpha[i]) : i \in DOMAIN alpha} |-> FALSE]
        wd == [i \in DOMAIN w |-> normalize_char(w[i])]
        known == [i \in DOMAIN wd |-> IF wd[i] \notin DOMAIN ls THEN Some(wd[i]) ELSE None]
    IN  IF \E i \in DOMAIN known : is_some(known[i])
        THEN [ok |-> FALSE, err |-> "NoAlphabet"]
        ELSE [ok |-> TRUE,
              game |-> [letters |-> ls, gallows |-> "Start", word |-> wd,
                        known_letters |-> known, fate |-> None]]

\* Variant: the first position of the word starts revealed, whatever it
\* holds.
new_first_shown(w, alpha) ==
    LET ls == [c \in {normalize_char(alpha[i]) : i \in DOMAIN alpha} |-> FALSE]
        wd == [i \in DOMAIN w |-> normalize_char(w[i])]
        known == [i \in DOMAIN wd |->
                    IF i = 1 \/ wd[i] \notin DOMAIN ls THEN Some(wd[i]) ELSE None]
    IN  IF \A i \in DOMAIN known : is_some(known[i])
        THEN [ok |-> FALSE, err |-> "NoAlphabet"]
        ELSE [ok |-> TRUE,
              game |-> [letters |-> ls, gallows |-> "Start", word |-> wd,
                        known_letters |-> known, fate |-> None]]

\* Variant: new accepts every word, also one that holds no character of
\* the alphabet.
new_unchecked(w, alpha) ==
    LET ls == [c \in {normalize_char(alpha[i]) : i \in DOMAIN alpha} |-> FALSE]
        wd == [i \in DOMAIN w |-> normalize_char(w[i])]
        known == [i \in DOMAIN wd |-> IF wd[i] \notin DOMAIN ls THEN Some(wd[i]) ELSE None]
    IN  [ok |-> TRUE,
         game |-> [letters |-> ls, gallows |-> "Start", word |-> wd,
                   known_letters |-> known, fate |-> None]]

\* Hangman::new: Ok(game) or Err(NoAlphabet).
new(w, alpha) ==
    LET ls == [c \in {normalize_char(alpha[i]) : i \in DOMAIN alpha} |-> FALSE]
        wd == [i \in DOMAIN w |-> normalize_char(w[i])]
        known == [i \in DOMAIN wd |-> IF wd[i] \notin DOMAIN ls THEN Some(wd[i]) ELSE None]
    IN  IF \A i \in DOMAIN known : is_some(known[i])
        THEN [ok |-> FALSE, err |-> "NoAlphabet"]
        ELSE [ok |-> TRUE,
              game |-> [letters |-> ls, gallows |-> "Start", word |-> wd,
                        known_letters |-> known, fate |-> None]]

\* Hangman::fate: a clone of the field.
fate_of(h) == h.fate

\* Variant: the loop writes every position, hiding those that do not hold g.
scan_overwrites(h, g) ==
    LET zipped == 1..Min(Len(h.word), Len(h.known_letters))
        hits == {i \in zipped : h.word[i] = g}
    IN  [count |-> Cardinality(hits),
         known_letters |-> [i \in DOMAIN h.known_letters |->
                              IF i \in hits THEN Some(h.word[i]) ELSE None]]

\* Variant: count is set to 1 at a hit, not incremented.
scan_counts_once(h, g) ==
    LET zipped == 1..Min(Len(h.word), Len(h.known_letters))
        hits == {i \in zipped : h.word[i] = g}
    IN  [count |-> IF hits = {} THEN 0 ELSE 1,
         known_letters |-> [i \in DOMAIN h.known_letters |->
                              IF i \in hits THEN Some(h.word[i]) ELSE h.known_letters[i]]]

\* Variant: the loop stops at the first position that holds g.
scan_first_only(h, g) ==
    LET zipped == 1..Min(Len(h.word), Len(h.known_letters))
        hits == {i \in zipped : h.word[i] = g /\ \A j \in 1..(i - 1) : h.word[j] # g}
    IN  [count |-> Cardinality(hits),
         known_letters |-> [i \in DOMAIN h.known_letters |->
                              IF i \in hits THEN Some(h.word[i]) ELSE h.known_letters[i]]]

\* The loop of guess over word.iter().zip(known_letters.iter_mut()): every
\* position holding g is counted and revealed, the others are left alone.
scan(h, g) ==
    LET zipped == 1..Min(Len(h.word), Len(h.known_letters))
        hits == {i \in zipped : h.word[i] = g}
    IN  [count |-> Cardinality(hits),
         known_letters |-> [i \in DOMAIN h.known_letters |->
                              IF i \in hits THEN Some(h.word[i]) ELSE h.known_letters[i]]]

\* Variant: won as soon as any position is revealed (any for all).
good_guess_any(h, g, count) ==
    LET won == \E i \in DOMAIN h.known_letters : is_some(h.known_letters[i])
    IN  [game |-> [h EXCEPT !.fate = IF won THEN Some(Won) ELSE h.fate],
         r |-> GoodGuess(g, count, won)]

\* The `count > 0` branch of guess.
good_guess(h, g, count) ==
    LET won == \A i \in DOMAIN h.known_letters : is_some(h.known_letters[i])
    IN  [game |-> [h EXCEPT !.fate = IF won THEN Some(Won) ELSE h.fate],
         r |-> GoodGuess(g, count, won)]

\* Variant: `self.gallows = g` is missing, the gallows never moves.
bad_guess_stuck(h, g) ==
    LET gal == h.gallows
        about == Lost(h.word)
        lost == IF gal = END THEN Some(about) ELSE None
    IN  [game |-> [h EXCEPT !.fate = IF gal = END THEN Some(FateLost(about)) ELSE h.fate],
         r |-> BadGuess(g, lost)]

\* Variant: END is tested before the gallows moves, not after.
bad_guess_late(h, g) ==
    LET next == succ(h.gallows)
        gal == IF is_some(next) THEN next[1] ELSE h.gallows
        about == Lost(h.word)
        lost == IF h.gallows = END THEN Some(about) ELSE None
    IN  [game |-> [h EXCEPT !.gallows = gal,
                            !.fate = IF h.gallows = END THEN Some(FateLost(about)) ELSE h.fate],
         r |-> BadGuess(g, lost)]

\* Variant: the gallows moves but the fate is never set to Lost.
bad_guess_unfated(h, g) ==
    LET next == succ(h.gallows)
        gal == IF is_some(next) THEN next[1] ELSE h.gallows
    IN  [game |-> [h EXCEPT !.gallows = gal],
         r |-> BadGuess(g, None)]

\* The `count == 0` branch of guess.
bad_guess(h, g) ==
    LET next == succ(h.gallows)
        gal == IF is_some(next) THEN next[1] ELSE h.gallows
        about == Lost(h.word)
        lost == IF gal = END THEN Some(about) ELSE None
    IN  [game |-> [h EXCEPT !.gallows = gal,
                            !.fate = IF gal = END THEN Some(FateLost(about)) ELSE h.fate],
         r |-> BadGuess(g, lost)]

\* Variant: `*b = true` is missing, the letter is never marked guessed.
new_guess_unmarked(h, g) ==
    LET s == scan(h, g)
        h1 == [h EXCEPT !.known_letters = s.known_letters]
    IN  IF s.count > 0 THEN good_guess(h1, g, s.count) ELSE bad_guess(h1, g)

\* The `Some(b @ false)` arm of guess: g is in the alphabet and not guessed.
new_guess(h, g) ==
    LET s == scan(h, g)
        h1 == [h EXCEPT !.known_letters = s.known_letters, !.letters[g] = TRUE]
    IN  IF s.count > 0 THEN good_guess(h1, g, s.count) ELSE bad_guess(h1, g)

\* Variant: a character outside the alphabet costs a stage of the gallows.
match_letter_invalid_costs(h, g) ==
    IF g \notin DOMAIN h.letters
    THEN [game |-> bad_guess(h, g).game, r |-> InvalidGuess(g)]
    ELSE IF h.letters[g]
    THEN [game |-> h, r |-> AlreadyGuessed(g)]
    ELSE new_guess(h, g)

\* Variant: a character guessed before costs a stage of the gallows.
match_letter_repeat_costs(h, g) ==
    IF g \notin DOMAIN h.letters
    THEN [game |-> h, r |-> InvalidGuess(g)]
    ELSE IF h.letters[g]
    THEN [game |-> bad_guess(h, g).game, r |-> AlreadyGuessed(g)]
    ELSE new_guess(h, g)

\* `match self.letters.get_mut(&guess)` of guess.
match_letter(h, g) ==
    IF g \notin DOMAIN h.letters
    THEN [game |-> h, r |-> InvalidGuess(g)]
    ELSE IF h.letters[g]
    THEN [game |-> h, r |-> AlreadyGuessed(g)]
    ELSE new_guess(h, g)

\* Variant: guess does not look at fate first.
guess_unchecked(h, c) == match_letter(h, normalize_char(c))

\* Hangman::guess: the game after the call and the value returned.
guess(h, c) ==
    IF is_some(fate_of(h))
    THEN [game |-> h, r |-> GameOver]
    ELSE match_letter(h, normalize_char(c))

\* No scenario is played: nothing is recorded.
ScenarioIdle == history = << >>

\* The terminal as the program finds it, and as Screen::new leaves it.
TermOff == [alt_screen |-> FALSE, raw_mode |-> FALSE, cursor_hidden |-> FALSE]
TermOn == [alt_screen |-> TRUE, raw_mode |-> TRUE, cursor_hidden |-> TRUE]

\* Controller::run has not been called.
SessionIdle ==
    /\ hint = None
    /\ event = None
    /\ wrote = "nothing"
    /\ result = None
    /\ term = TermOff
    /\ restore = << >>

\* There is no Screen.
ScreenIdle ==
    /\ cpc = "idle"
    /\ content = None
    /\ columns = 0
    /\ rows = 0
    /\ frame = << >>
    /\ painted = << >>
    /\ SessionIdle

Init ==
    /\ pc = "new"
    /\ in_word \in Words
    /\ alphabet \in Alphabets
    /\ letters = << >>
    /\ gallows = "Start"
    /\ word = << >>
    /\ known_letters = << >>
    /\ fate = None
    /\ arg = None
    /\ response = None
    /\ ScenarioIdle
    /\ ScreenIdle

\* Controller::new / Command::run: construct the game.
New ==
    /\ pc = "new"
    /\ LET res == new(in_word, alphabet)
       IN  IF res.ok
           THEN /\ pc' = "playing"
                /\ letters' = res.game.letters
                /\ gallows' = res.game.gallows
                /\ word' = res.game.word
                /\ known_letters' = res.game.known_letters
                /\ fate' = res.game.fate
           ELSE /\ pc' = res.err
                /\ UNCHANGED <<letters, gallows, word, known_letters, fate>>
    /\ UNCHANGED <<in_word, alphabet, arg, response>>
    /\ UNCHANGED <<scenario_vars, screen_vars>>

\* `self.game.guess(c)`: the fields of the game are those guess leaves, and
\* the argument and the value returned are kept.
GuessWith(c) ==
    LET res == guess(Hangman, c)
    IN  /\ letters' = res.game.letters
        /\ gallows' = res.game.gallows
        /\ word' = res.game.word
        /\ known_letters' = res.game.known_letters
        /\ fate' = res.game.fate
        /\ arg' = Some(c)
        /\ response' = Some(res.r)

\* One call of Hangman::guess with any character.
Guess ==
    /\ pc = "playing"
    /\ \E c \in GuessChars : GuessWith(c)
    /\ UNCHANGED <<pc, in_word, alphabet>>
    /\ UNCHANGED <<scenario_vars, screen_vars>>

Next == New \/ Guess

Spec == Init /\ [][Next]_vars

(***************************************************************************)
(* Scenarios: games against the whole ASCII_ALPHABET in which the keys of  *)
(* a scenario are typed in any order, each call of guess being recorded.   *)
(***************************************************************************)
\* Most calls of guess recorded in one game.
MaxGuesses == 6

\* "CAB" and "GO"
CAB == <<67, 65, 66>>
GO == <<71, 79>>
ScenarioWords == {CAB, GO}

\* The keys typed against each word: C, A, Z, B and Q, W, X, Z, J, K.
ScenarioKeys(w) == IF w = CAB THEN {67, 65, 90, 66} ELSE {81, 87, 88, 90, 74, 75}

InitScenario ==
    /\ pc = "new"
    /\ in_word \in ScenarioWords
    /\ alphabet = ASCII_ALPHABET
    /\ letters = << >>
    /\ gallows = "Start"
    /\ word = << >>
    /\ known_letters = << >>
    /\ fate = None
    /\ arg = None
    /\ response = None
    /\ history = << >>
    /\ ScreenIdle

\* One call of Hangman::guess with a key of the scenario, recorded with the
\* stage of the gallows it leaves.
GuessLogged ==
    /\ pc = "playing"
    /\ Len(history) < MaxGuesses
    /\ \E c \in ScenarioKeys(in_word) :
         /\ GuessWith(c)
         /\ history' = Append(history, [arg |-> c, r |-> guess(Hangman, c).r,
                                        gallows |-> guess(Hangman, c).game.gallows])
    /\ UNCHANGED <<pc, in_word, alphabet>>
    /\ UNCHANGED screen_vars

NextScenario == New \/ GuessLogged

SpecScenario == InitScenario /\ [][NextScenario]_vars

(***************************************************************************)
(* The Screen alone: a Content is handed to Screen::new, drawn, and drawn  *)
(* again at each resize of the terminal.                                   *)
(***************************************************************************)
\* Length of the long hint; "Hint: " and 20 characters are wider than WIDTH.
LongHintLen == 20
\* Digits added to ASCII_ALPHABET in the longest alphabet shown; 26 letters
\* and 5 digits need a sixth row of letters.
ExtraLetters == 5

\* The keys of a BTreeMap in the order of its iteration: ascending.
RECURSIVE sorted_keys(_)
sorted_keys(keys) ==
    IF keys = {} THEN << >>
    ELSE LET least == CHOOSE k \in keys : \A other \in keys : k <= other
         IN  <<least>> \o sorted_keys(keys \ {least})

\* Variant: `b.then_some(ch)`, the guessed keys are the ones offered.
guess_options_of_flipped(ls) ==
    LET keys == sorted_keys(DOMAIN ls)
    IN  [i \in DOMAIN keys |-> IF ls[keys[i]] THEN Some(keys[i]) ELSE None]

\* `guessed().iter().map(|(&ch, &b)| (!b).then_some(ch)).collect()`
guess_options_of(ls) ==
    LET keys == sorted_keys(DOMAIN ls)
    IN  [i \in DOMAIN keys |-> IF ls[keys[i]] THEN None ELSE Some(keys[i])]

\* display_known_letters
display_known_letters(known) ==
    [i \in DOMAIN known |-> IF is_some(known[i]) THEN Plain(known[i][1]) ELSE Blank]

\* No hint, "ab", and a hint of LongHintLen 'x'.
Hints == {None, Some(<<97, 98>>), Some([i \in 1..LongHintLen |-> 120])}

\* "A-Z", then the first ExtraLetters digits, then "a": the digits come
\* before the letters in the order of the codes, and 'a' is 'A' again.
LongAlphabet == ASCII_ALPHABET \o [i \in 1..ExtraLetters |-> 47 + i] \o <<97>>

\* Alphabet strings: "", "BAb", A-Z and the long one.
ViewAlphabets == {<< >>, <<66, 65, 98>>, ASCII_ALPHABET, LongAlphabet}

\* Which letters have been guessed: none, those of odd code, all.
UsedPatterns == {"none", "odd", "all"}

\* Hangman.letters of a game on alphabet a once the letters of pattern u
\* have been guessed.
view_letters(a, u) ==
    [c \in {normalize_char(a[i]) : i \in DOMAIN a} |->
        CASE u = "none" -> FALSE
          [] u = "odd" -> c % 2 = 1
          [] u = "all" -> TRUE]

WordDisplays1 == <<Blank>>
WordDisplays ==
    {WordDisplays1, <<Plain(65), Plain(66), Blank>>, <<Plain(65), Highlighted(66), Blank>>}

Messages ==
    {MsgStart, MsgGoodGuess(65, 1), MsgGoodGuess(65, 2), MsgBadGuess(69),
     MsgAlreadyGuessed(65), MsgInvalidGuess(45), MsgWon, MsgLost}

\* The Content that Controller::run builds.
Content(h, g, ls, wd, m) ==
    [hint |-> h, gallows |-> g, guess_options |-> guess_options_of(ls),
     word_display |-> wd, message |-> m]

\* What a Content is made of: every hint with every message, every gallows
\* with every message and word, every alphabet with every hint and word.
ContentArgs ==
    {[h |-> h, g |-> "Start", a |-> ASCII_ALPHABET, u |-> "none", wd |-> WordDisplays1, m |-> m] :
        h \in Hints, m \in Messages}
    \cup {[h |-> None, g |-> g, a |-> ASCII_ALPHABET, u |-> "none", wd |-> wd, m |-> m] :
            g \in Range(Gallows), wd \in WordDisplays, m \in Messages}
    \cup {[h |-> h, g |-> "AddTorso", a |-> a, u |-> u, wd |-> wd, m |-> MsgGoodGuess(65, 1)] :
            h \in Hints, a \in ViewAlphabets, u \in UsedPatterns, wd \in WordDisplays}

\* The keys of a keyboard.
Char(ch) == [key |-> "Char", ch |-> ch]
Esc == [key |-> "Esc", ch |-> 0]
Enter == [key |-> "Enter", ch |-> 0]

\* An event that as_key_press_event accepts, one that as_resize_event
\* accepts, and any other (a key release, the focus, the mouse, a paste).
KeyPress(code, modifiers) == [kind |-> "key", code |-> code, modifiers |-> modifiers]
Resize(c, r) == [kind |-> "resize", columns |-> c, rows |-> r]
OtherEvent == [kind |-> "other"]

\* Terminal sizes (columns, rows) that size() and resize events report.
Sizes == {0, 10, 24, 25, 50, 51} \X {0, 6, 13, 14, 15}

InitView ==
    /\ pc = "idle"
    /\ in_word = << >>
    /\ gallows = "Start"
    /\ word = << >>
    /\ known_letters = << >>
    /\ fate = None
    /\ arg = None
    /\ response = None
    /\ ScenarioIdle
    /\ cpc = "screen_new"
    /\ \E x \in ContentArgs :
         /\ alphabet = x.a
         /\ letters = view_letters(x.a, x.u)
         /\ content = Some(Content(x.h, x.g, view_letters(x.a, x.u), x.wd, x.m))
    /\ columns = 0
    /\ rows = 0
    /\ frame = << >>
    /\ painted = << >>
    /\ SessionIdle

\* Screen::new where nothing fails: the size is asked, the terminal set up
\* and the content rendered.
ViewNew ==
    /\ cpc = "screen_new"
    /\ \E sz \in Sizes :
         /\ columns' = sz[1]
         /\ rows' = sz[2]
    /\ term' = TermOn
    /\ frame' = render(content[1])
    /\ cpc' = "draw"
    /\ UNCHANGED <<content, painted, hint, event, wrote, result, restore>>
    /\ UNCHANGED <<engine_vars, scenario_vars>>

\* Screen::draw where nothing fails.
ViewDraw ==
    /\ cpc = "draw"
    /\ painted' = lines_in_area(frame, columns, rows)
    /\ wrote' = "frame"
    /\ cpc' = "read"
    /\ UNCHANGED <<content, columns, rows, frame, hint, event, result, term, restore>>
    /\ UNCHANGED <<engine_vars, scenario_vars>>

\* Screen::read_guess at a resize event, the draw not failing.
ViewResize ==
    /\ cpc = "read"
    /\ \E sz \in Sizes :
         /\ columns' = sz[1]
         /\ rows' = sz[2]
         /\ painted' = lines_in_area(frame, sz[1], sz[2])
    /\ wrote' = "frame"
    /\ UNCHANGED <<cpc, content, frame, hint, event, result, term, restore>>
    /\ UNCHANGED <<engine_vars, scenario_vars>>

\* Variant: the frame is made for the Screen as well as for the Content: a
\* terminal of fewer than 24 columns gets no hint.
ViewUpdate_fitted ==
    /\ cpc = "read"
    /\ event' = Some(KeyPress(Char(97), {}))
    /\ frame' = render(IF columns < WIDTH + 1 THEN [content[1] EXCEPT !.hint = None]
                       ELSE content[1])
    /\ painted' = lines_in_area(frame', columns, rows)
    /\ wrote' = "frame"
    /\ UNCHANGED <<cpc, content, columns, rows, hint, result, term, restore>>
    /\ UNCHANGED <<engine_vars, scenario_vars>>

\* Screen::update, after read_guess has returned a key, with a Content that
\* equals the one of the frame on the Screen, the draw not failing.
ViewUpdate ==
    /\ cpc = "read"
    /\ event' = Some(KeyPress(Char(97), {}))
    /\ frame' = render(content[1])
    /\ painted' = lines_in_area(frame', columns, rows)
    /\ wrote' = "frame"
    /\ UNCHANGED <<cpc, content, columns, rows, hint, result, term, restore>>
    /\ UNCHANGED <<engine_vars, scenario_vars>>

NextView == ViewNew \/ ViewDraw \/ ViewResize \/ ViewUpdate

SpecView == InitView /\ [][NextView]_vars

(***************************************************************************)
(* A session: Controller::new, then Controller::run on a Screen whose      *)
(* reads return the events of a terminal and whose writes may fail.        *)
(***************************************************************************)
\* Variant: Esc alone cancels.
is_cancel_esc_only(ev) == ev.code = Esc

\* `code == KeyCode::Esc || (modifiers, code) == (CONTROL, Char('c'))`
is_cancel(ev) ==
    \/ ev.code = Esc
    \/ (ev.modifiers = {"CONTROL"} /\ ev.code = Char(99))

\* Variant: the modifiers are not looked at.
is_char_any_modifier(ev) == ev.code.key = "Char"

\* `normal_modifiers.contains(modifiers)` and `let KeyCode::Char(ch) = code`
is_char(ev) == ev.modifiers \subseteq {"SHIFT"} /\ ev.code.key = "Char"

\* The key presses of a session: a, B, c, Q, W, X, Z, J and '-' typed as
\* they are on a keyboard, Esc, Ctrl-C, Ctrl-A and Enter.
KeyEvents ==
    {KeyPress(Char(97), {}), KeyPress(Char(99), {}), KeyPress(Char(45), {})}
    \cup {KeyPress(Char(ch), {"SHIFT"}) : ch \in {66, 81, 87, 88, 90, 74}}
    \cup {KeyPress(Esc, {}), KeyPress(Char(99), {"CONTROL"})}
    \cup {KeyPress(Char(97), {"CONTROL"}), KeyPress(Enter, {})}

\* The sizes that size() and the resize events report.
SessionSizes == {<<50, 15>>, <<20, 6>>}

\* The secret of a session: "a-B", with the hint "ab".
SessionWords == {<<97, 45, 66>>}
SessionHints == {Some(<<97, 98>>)}

\* Variant: game_over is never set, the loop goes on after the last guess.
turn_never_over(h, hnt, c) ==
    LET res == guess(h, c)
        r == res.r
        shown == display_known_letters(res.game.known_letters)
        marked == IF r.kind = "GoodGuess"
                  THEN [i \in DOMAIN shown |->
                          IF shown[i] = Plain(r.guess) THEN Highlighted(r.guess) ELSE shown[i]]
                  ELSE shown
        said == CASE r.kind = "GoodGuess" -> MsgGoodGuess(r.guess, r.count)
                  [] r.kind = "BadGuess" -> MsgBadGuess(r.guess)
                  [] r.kind = "AlreadyGuessed" -> MsgAlreadyGuessed(r.guess)
                  [] r.kind = "InvalidGuess" -> MsgInvalidGuess(r.guess)
                  [] r.kind = "GameOver" -> MsgInvalidGuess(c)
        end == fate_of(res.game)
        game_over == is_some(end)
        lost == game_over /\ end[1].kind = "Lost"
        word_display == IF lost
                        THEN [i \in DOMAIN marked |->
                                IF i <= Len(end[1].about.word) /\ marked[i] = Blank
                                THEN Highlighted(end[1].about.word[i]) ELSE marked[i]]
                        ELSE marked
        message == IF ~game_over THEN said ELSE IF lost THEN MsgLost ELSE MsgWon
    IN  [game |-> res.game, r |-> r, game_over |-> FALSE,
         content |-> [hint |-> hnt, gallows |-> res.game.gallows,
                      guess_options |-> guess_options_of(res.game.letters),
                      word_display |-> word_display, message |-> message]]

\* The body of the loop of Controller::run up to the Content: the game
\* after guess, the value it returned, the Content and game_over.
turn(h, hnt, c) ==
    LET res == guess(h, c)
        r == res.r
        shown == display_known_letters(res.game.known_letters)
        marked == IF r.kind = "GoodGuess"
                  THEN [i \in DOMAIN shown |->
                          IF shown[i] = Plain(r.guess) THEN Highlighted(r.guess) ELSE shown[i]]
                  ELSE shown
        said == CASE r.kind = "GoodGuess" -> MsgGoodGuess(r.guess, r.count)
                  [] r.kind = "BadGuess" -> MsgBadGuess(r.guess)
                  [] r.kind = "AlreadyGuessed" -> MsgAlreadyGuessed(r.guess)
                  [] r.kind = "InvalidGuess" -> MsgInvalidGuess(r.guess)
                  [] r.kind = "GameOver" -> MsgInvalidGuess(c)
        end == fate_of(res.game)
        game_over == is_some(end)
        lost == game_over /\ end[1].kind = "Lost"
        word_display == IF lost
                        THEN [i \in DOMAIN marked |->
                                IF i <= Len(end[1].about.word) /\ marked[i] = Blank
                                THEN Highlighted(end[1].about.word[i]) ELSE marked[i]]
                        ELSE marked
        message == IF ~game_over THEN said ELSE IF lost THEN MsgLost ELSE MsgWon
    IN  [game |-> res.game, r |-> r, game_over |-> game_over,
         content |-> [hint |-> hnt, gallows |-> res.game.gallows,
                      guess_options |-> guess_options_of(res.game.letters),
                      word_display |-> word_display, message |-> message]]

\* Variant: drop stops at the first operation that fails.
drop_screen_try(t, ok) ==
    [term |-> [cursor_hidden |-> t.cursor_hidden /\ ~ok[1],
               raw_mode |-> t.raw_mode /\ ~(ok[1] /\ ok[2]),
               alt_screen |-> t.alt_screen /\ ~(ok[1] /\ ok[2] /\ ok[3])],
     restore |-> IF ~ok[1] THEN <<[op |-> "Show", ok |-> FALSE]>>
                 ELSE IF ~ok[2] THEN <<[op |-> "Show", ok |-> TRUE],
                                       [op |-> "disable_raw_mode", ok |-> FALSE]>>
                 ELSE <<[op |-> "Show", ok |-> TRUE],
                        [op |-> "disable_raw_mode", ok |-> TRUE],
                        [op |-> "LeaveAlternateScreen", ok |-> ok[3]]>>]

\* Drop for Screen: Show, disable_raw_mode and LeaveAlternateScreen are
\* each tried, whatever became of the one before; ok says which succeed.
drop_screen(t, ok) ==
    [term |-> [cursor_hidden |-> t.cursor_hidden /\ ~ok[1],
               raw_mode |-> t.raw_mode /\ ~ok[2],
               alt_screen |-> t.alt_screen /\ ~ok[3]],
     restore |-> <<[op |-> "Show", ok |-> ok[1]],
                   [op |-> "disable_raw_mode", ok |-> ok[2]],
                   [op |-> "LeaveAlternateScreen", ok |-> ok[3]]>>]

InitSession ==
    /\ pc = "new"
    /\ in_word \in SessionWords
    /\ alphabet = ASCII_ALPHABET
    /\ letters = << >>
    /\ gallows = "Start"
    /\ word = << >>
    /\ known_letters = << >>
    /\ fate = None
    /\ arg = None
    /\ response = None
    /\ ScenarioIdle
    /\ cpc = "run"
    /\ content = None
    /\ columns = 0
    /\ rows = 0
    /\ frame = << >>
    /\ painted = << >>
    /\ hint \in SessionHints
    /\ event = None
    /\ wrote = "nothing"
    /\ result = None
    /\ term = TermOff
    /\ restore = << >>

\* Which of Show, disable_raw_mode and LeaveAlternateScreen succeed when
\* the Screen is dropped: all, all but one, none.
RestoreOutcomes ==
    {<<TRUE, TRUE, TRUE>>, <<FALSE, TRUE, TRUE>>, <<TRUE, FALSE, TRUE>>,
     <<TRUE, TRUE, FALSE>>, <<FALSE, FALSE, FALSE>>}

\* Controller and Screen are gone; what was read, printed and asked of the
\* game last is still known.
Gone ==
    /\ pc' = "idle"
    /\ in_word' = << >>
    /\ alphabet' = << >>
    /\ letters' = << >>
    /\ gallows' = "Start"
    /\ word' = << >>
    /\ known_letters' = << >>
    /\ fate' = None
    /\ cpc' = "done"
    /\ content' = None
    /\ columns' = 0
    /\ rows' = 0
    /\ frame' = << >>
    /\ painted' = << >>
    /\ hint' = None

\* Controller::run returns res: its Screen is dropped, which restores the
\* terminal, and `self` with it.
Return(res) ==
    /\ result' = Some(res)
    /\ \E ok \in RestoreOutcomes :
         /\ term' = drop_screen(term, ok).term
         /\ restore' = restore \o drop_screen(term, ok).restore
    /\ Gone

\* ScreenError::Init(e), e the error of the call that failed.
ScreenErrorInit(failing) ==
    CASE failing = "size" -> "Init(size)"
      [] failing = "EnterAlternateScreen" -> "Init(EnterAlternateScreen)"
      [] failing = "enable_raw_mode" -> "Init(enable_raw_mode)"
      [] failing = "Hide" -> "Init(Hide)"

\* Variant: when Hide fails the alternate screen is left and the raw mode
\* stays enabled.
screen_new_undo_leave_only(t, failing, raw_ok, leave_ok) ==
    CASE failing \in {"size", "EnterAlternateScreen"} ->
           [term |-> t, restore |-> << >>]
      [] failing = "enable_raw_mode" ->
           [term |-> [t EXCEPT !.alt_screen = ~leave_ok],
            restore |-> <<[op |-> "LeaveAlternateScreen", ok |-> leave_ok]>>]
      [] failing = "Hide" ->
           [term |-> [t EXCEPT !.alt_screen = ~leave_ok, !.raw_mode = TRUE],
            restore |-> <<[op |-> "LeaveAlternateScreen", ok |-> leave_ok]>>]

\* The error paths of Screen::new from the terminal t: nothing is undone
\* when size or EnterAlternateScreen fails; LeaveAlternateScreen is tried
\* when enable_raw_mode fails; disable_raw_mode and LeaveAlternateScreen
\* are tried when Hide fails.  raw_ok and leave_ok say which undoing
\* succeeds.
screen_new_undo(t, failing, raw_ok, leave_ok) ==
    CASE failing \in {"size", "EnterAlternateScreen"} ->
           [term |-> t, restore |-> << >>]
      [] failing = "enable_raw_mode" ->
           [term |-> [t EXCEPT !.alt_screen = ~leave_ok],
            restore |-> <<[op |-> "LeaveAlternateScreen", ok |-> leave_ok]>>]
      [] failing = "Hide" ->
           [term |-> [t EXCEPT !.alt_screen = ~leave_ok, !.raw_mode = ~raw_ok],
            restore |-> <<[op |-> "disable_raw_mode", ok |-> raw_ok],
                          [op |-> "LeaveAlternateScreen", ok |-> leave_ok]>>]

\* The first Content of run and Screen::new: the size is asked, the
\* alternate screen entered, the raw mode enabled and the cursor hidden;
\* when a step fails the ones before it are undone, the outcome of the
\* undoing is ignored and run returns the Init error with no Screen made.
RunScreenNew ==
    /\ pc = "playing"
    /\ cpc = "run"
    /\ \E failing \in {"none", "size", "EnterAlternateScreen", "enable_raw_mode", "Hide"},
          raw_ok \in BOOLEAN, leave_ok \in BOOLEAN :
         IF failing = "none"
         THEN /\ content' = Some(Content(hint, gallows, letters,
                                          display_known_letters(known_letters), MsgStart))
              /\ \E sz \in SessionSizes :
                   /\ columns' = sz[1]
                   /\ rows' = sz[2]
              /\ frame' = render(content'[1])
              /\ term' = TermOn
              /\ cpc' = "draw"
              /\ wrote' = "modes"
              /\ UNCHANGED <<engine_vars, painted, hint, event, result, restore>>
         ELSE /\ Gone
              /\ UNCHANGED <<arg, response, event>>
              /\ result' = Some(ScreenErrorInit(failing))
              /\ wrote' = IF failing = "size" THEN "nothing" ELSE "modes"
              /\ term' = screen_new_undo(term, failing, raw_ok, leave_ok).term
              /\ restore' = screen_new_undo(term, failing, raw_ok, leave_ok).restore
    /\ UNCHANGED scenario_vars

\* Screen::draw of frame f in c columns and r rows: the lines printed.
Draw(f, c, r) ==
    /\ painted' = lines_in_area(f, c, r)
    /\ wrote' = "frame"

\* `screen.draw()?` of run.
RunDraw ==
    /\ cpc = "draw"
    /\ \/ /\ Draw(frame, columns, rows)
          /\ cpc' = "read"
          /\ UNCHANGED <<content, columns, rows, frame, hint, result, term, restore>>
          /\ UNCHANGED <<pc, in_word, alphabet, letters, gallows, word, known_letters, fate>>
       \/ /\ wrote' = "failed"
          /\ Return("Write")
    /\ UNCHANGED <<arg, response, event>>
    /\ UNCHANGED scenario_vars

\* read_guess is waiting in read(), called by the loop or by pause.
Reading == cpc \in {"read", "pause"}

\* The step stays in read_guess: nothing but the terminal has changed.
ReadAgain ==
    /\ UNCHANGED <<cpc, content, frame, hint, result, term, restore>>
    /\ UNCHANGED <<pc, in_word, alphabet, letters, gallows, word, known_letters, fate>>

\* read() fails: read_guess returns the Read error, and so does run.
ReadFails ==
    /\ Reading
    /\ event' = None
    /\ wrote' = "nothing"
    /\ Return("Read")
    /\ UNCHANGED <<arg, response>>
    /\ UNCHANGED scenario_vars

\* Esc or Ctrl-C: read_guess returns Ok(None); the loop ends, or pause
\* returns and the loop is left, and run returns Ok(()).
Cancel ==
    /\ Reading
    /\ \E ev \in KeyEvents :
         /\ is_cancel(ev)
         /\ event' = Some(ev)
    /\ wrote' = "nothing"
    /\ Return("Ok")
    /\ UNCHANGED <<arg, response>>
    /\ UNCHANGED scenario_vars

\* A character in the loop: read_guess returns Ok(Some(ch)), the game is
\* asked, the Content built and handed to Screen::update, which renders
\* and draws it; then the loop goes on, or pause is called when the game
\* is over.  When the draw fails run returns the Write error.
Turn ==
    /\ cpc = "read"
    /\ \E ev \in KeyEvents :
         /\ ~is_cancel(ev)
         /\ is_char(ev)
         /\ event' = Some(ev)
         /\ LET t == turn(Hangman, hint, ev.code.ch)
                f == render(t.content)
            IN  \/ /\ GuessWith(ev.code.ch)
                   /\ content' = Some(t.content)
                   /\ frame' = f
                   /\ Draw(f, columns, rows)
                   /\ cpc' = IF t.game_over THEN "pause" ELSE "read"
                   /\ UNCHANGED <<pc, in_word, alphabet>>
                   /\ UNCHANGED <<columns, rows, hint, result, term, restore>>
                \/ /\ arg' = Some(ev.code.ch)
                   /\ response' = Some(t.r)
                   /\ wrote' = "failed"
                   /\ Return("Write")
    /\ UNCHANGED scenario_vars

\* A character in pause: read_guess returns, its value is dropped, the
\* loop is left and run returns Ok(()).
PauseKey ==
    /\ cpc = "pause"
    /\ \E ev \in KeyEvents :
         /\ ~is_cancel(ev)
         /\ is_char(ev)
         /\ event' = Some(ev)
    /\ wrote' = "nothing"
    /\ Return("Ok")
    /\ UNCHANGED <<arg, response>>
    /\ UNCHANGED scenario_vars

\* Any other key press: beep, and read again unless the write failed.
Reject ==
    /\ Reading
    /\ \E ev \in KeyEvents :
         /\ ~is_cancel(ev)
         /\ ~is_char(ev)
         /\ event' = Some(ev)
    /\ \/ /\ wrote' = "bell"
          /\ ReadAgain
          /\ UNCHANGED <<columns, rows, painted>>
       \/ /\ wrote' = "failed"
          /\ Return("Write")
    /\ UNCHANGED <<arg, response>>
    /\ UNCHANGED scenario_vars

\* A resize event: the size is stored and the frame drawn again, and
\* read again unless a write failed.
ResizeEvent ==
    /\ Reading
    /\ \E sz \in SessionSizes :
         /\ event' = Some(Resize(sz[1], sz[2]))
         /\ \/ /\ columns' = sz[1]
               /\ rows' = sz[2]
               /\ Draw(frame, sz[1], sz[2])
               /\ ReadAgain
            \/ /\ wrote' = "failed"
               /\ Return("Write")
    /\ UNCHANGED <<arg, response>>
    /\ UNCHANGED scenario_vars

\* An event that is neither a key press nor a resize: read again.
Ignore ==
    /\ Reading
    /\ event' = Some(OtherEvent)
    /\ wrote' = "nothing"
    /\ ReadAgain
    /\ UNCHANGED <<columns, rows, painted>>
    /\ UNCHANGED <<arg, response>>
    /\ UNCHANGED scenario_vars

NextSession ==
    \/ New
    \/ RunScreenNew
    \/ RunDraw
    \/ ReadFails
    \/ Cancel
    \/ Turn
    \/ PauseKey
    \/ Reject
    \/ ResizeEvent
    \/ Ignore

SpecSession == InitSession /\ [][NextSession]_vars

(***************************************************************************)
(* Vocabulary of the properties.                                           *)
(***************************************************************************)
Playing == pc = "playing"
Ongoing == pc = "playing" /\ is_none(fate)

\* Position of a stage in the declared order, 1 for Start up to 7.
GallowsIndex(g) == CHOOSE i \in DOMAIN Gallows : Gallows[i] = g

\* The character the call being made (the step's guess) compares, and what
\* is true of it in the state the call starts from.
Guessed == normalize_char(arg'[1])
InAlphabet(g) == g \in DOMAIN letters
Fresh(g) == g \in DOMAIN letters /\ ~letters[g]
InWord(g) == g \in Range(word)

AllRevealed(known) == \A i \in DOMAIN known : is_some(known[i])

GameUnchanged == UNCHANGED <<letters, gallows, word, known_letters, fate>>

(***************************************************************************)
(* C1.  Once fate is set, every call of guess, whatever the character,     *)
(* returns GameOver and changes neither the alphabet map, the gallows, the *)
(* known letters, the word nor the fate.                                   *)
(***************************************************************************)
C1_FateIsFinal ==
    [][(Playing /\ is_some(fate)) => (response' = Some(GameOver) /\ GameUnchanged)]_vars

\* A guess of a letter nobody tried was answered GameOver after a loss.
C1_Witness ==
    /\ Playing
    /\ is_some(fate) /\ fate[1].kind = "Lost"
    /\ response = Some(GameOver)
    /\ arg # None /\ Fresh(normalize_char(arg[1]))

(***************************************************************************)
(* C2.  A guess of a character outside the alphabet is answered            *)
(* InvalidGuess and changes no state, in every reachable state of a game.  *)
(***************************************************************************)
\* As claimed: in every state of a game, finished games included.
C2_AsClaimed ==
    [][(Playing /\ ~InAlphabet(Guessed)) =>
          (response' = Some(InvalidGuess(Guessed)) /\ GameUnchanged)]_vars

\* As the code has it: InvalidGuess while the game is on, GameOver once it is
\* over, and no change of state either way.
C2_InvalidGuess ==
    [][(Playing /\ ~InAlphabet(Guessed)) =>
          /\ response' = Some(IF is_none(fate) THEN InvalidGuess(Guessed) ELSE GameOver)
          /\ GameUnchanged]_vars

\* '-' was refused in a game that had already seen a wrong and a right guess.
C2_Witness ==
    /\ Ongoing
    /\ response = Some(InvalidGuess(45))
    /\ gallows # "Start"
    /\ \E i \in DOMAIN known_letters : is_some(known_letters[i])

(***************************************************************************)
(* C3.  An alphabet character guessed twice in a row from a reachable      *)
(* ongoing state: the first guess is answered GoodGuess or BadGuess, the   *)
(* second AlreadyGuessed, and the second changes no state.                 *)
(***************************************************************************)
\* As claimed: for every character of the alphabet.
C3_AsClaimed ==
    Ongoing =>
      \A c \in GuessChars :
        InAlphabet(normalize_char(c)) =>
          LET first == guess(Hangman, c)
              second == guess(first.game, c)
          IN  /\ first.r.kind \in {"GoodGuess", "BadGuess"}
              /\ second.r = AlreadyGuessed(normalize_char(c))
              /\ second.game = first.game

\* As the code has it: for every character of the alphabet that has not
\* been guessed yet, and with GameOver for AlreadyGuessed when the first
\* guess ended the game.
C3_Repeat ==
    Ongoing =>
      \A c \in GuessChars :
        Fresh(normalize_char(c)) =>
          LET first == guess(Hangman, c)
              second == guess(first.game, c)
          IN  /\ first.r.kind \in {"GoodGuess", "BadGuess"}
              /\ second.r = IF is_some(first.game.fate) THEN GameOver
                            ELSE AlreadyGuessed(normalize_char(c))
              /\ second.game = first.game

\* A repeat was answered AlreadyGuessed while the game was on.
C3_Witness ==
    /\ Ongoing
    /\ response # None /\ response[1].kind = "AlreadyGuessed"
    /\ letters[response[1].guess]
    /\ normalize_char(arg[1]) = response[1].guess

(***************************************************************************)
(* C4.  The gallows moves on by exactly one stage at each guess of an      *)
(* alphabet character that was not guessed before and is not in the word,  *)
(* and stays where it is at every other guess.                             *)
(***************************************************************************)
C4_GallowsStep ==
    [][Playing =>
         IF is_none(fate) /\ Fresh(Guessed) /\ ~InWord(Guessed)
         THEN GallowsIndex(gallows') = GallowsIndex(gallows) + 1
         ELSE gallows' = gallows]_vars

\* The third wrong guess has just been made.
C4_Witness ==
    /\ Playing
    /\ gallows = "AddLeftArm"
    /\ response # None /\ response[1].kind = "BadGuess"

(***************************************************************************)
(* C5.  Fate is Lost after exactly six distinct unsuccessful guesses and   *)
(* not before, and the Lost value, in fate and in the answer to the sixth  *)
(* of them, carries the whole secret word.                                 *)
(***************************************************************************)
\* The alphabet characters guessed so far that are not in the word.
Unsuccessful == {c \in DOMAIN letters : letters[c] /\ ~InWord(c)}

IsLost(f) == is_some(f) /\ f[1].kind = "Lost"

C5_LostAtSix ==
    /\ [](Playing =>
            /\ IsLost(fate) <=> Cardinality(Unsuccessful) = 6
            /\ IsLost(fate) =>
                 /\ fate = Some(FateLost(Lost(word)))
                 /\ Len(fate[1].about.word) = Len(in_word))
    /\ [][(Ongoing /\ Fresh(Guessed) /\ ~InWord(Guessed)) =>
            IF Cardinality(Unsuccessful) = 5
            THEN /\ response' = Some(BadGuess(Guessed, Some(Lost(word))))
                 /\ IsLost(fate')
            ELSE /\ response' = Some(BadGuess(Guessed, None))
                 /\ is_none(fate')]_vars

\* The sixth wrong guess has just lost a game in which a letter was found.
C5_Witness ==
    /\ Playing
    /\ IsLost(fate)
    /\ response # None /\ response[1].kind = "BadGuess"
    /\ \E c \in DOMAIN letters : letters[c] /\ InWord(c)

(***************************************************************************)
(* C6.  The guess that completes the set of the word's guessable           *)
(* characters, and no other, reveals the whole word, sets fate to Won and  *)
(* is answered GoodGuess with won = true; every earlier GoodGuess has      *)
(* won = false.                                                            *)
(***************************************************************************)
\* Every character of the word that can be guessed has been guessed.
WordGuessed(ls) == \A i \in DOMAIN word : word[i] \in DOMAIN ls => ls[word[i]]

C6_WonOnCompletion ==
    /\ [](Playing =>
            /\ fate = Some(Won) <=> WordGuessed(letters)
            /\ fate = Some(Won) <=> AllRevealed(known_letters))
    /\ [][(Ongoing /\ Fresh(Guessed) /\ InWord(Guessed)) =>
            /\ response'[1].kind = "GoodGuess"
            /\ response'[1].won <=> WordGuessed(letters')
            /\ fate' = (IF WordGuessed(letters') THEN Some(Won) ELSE None)]_vars

\* A word of two distinct letters has just been completed after a mistake.
C6_Witness ==
    /\ Playing
    /\ fate = Some(Won)
    /\ response # None /\ response[1].kind = "GoodGuess" /\ response[1].won
    /\ Cardinality(Range(word) \cap DOMAIN letters) = 2
    /\ gallows # "Start"

(***************************************************************************)
(* The upper-case form of each character of the model, written out: 'a'    *)
(* and 'b' are the only lower-case ASCII letters among them.               *)
(***************************************************************************)
AsciiUpper(c) == CASE c = 97 -> 65 [] c = 98 -> 66 [] OTHER -> c

\* Position i of the word handed to new holds a character of the alphabet
\* handed to new, both normalized.
Guessable(i) == \E j \in DOMAIN alphabet : AsciiUpper(in_word[i]) = AsciiUpper(alphabet[j])

(***************************************************************************)
(* C7.  Hangman::new succeeds exactly when the normalized word has a       *)
(* character of the normalized alphabet, and fails with NoAlphabet         *)
(* otherwise.  On success the positions revealed are those whose character *)
(* is not in the alphabet, as many as there are such positions, the others *)
(* are hidden, the gallows is at Start, no letter is guessed and there is  *)
(* no fate.                                                                *)
(***************************************************************************)
C7_New ==
    [][pc = "new" =>
         IF \E i \in DOMAIN in_word : Guessable(i)
         THEN /\ pc' = "playing"
              /\ DOMAIN known_letters' = DOMAIN in_word
              /\ Cardinality({i \in DOMAIN known_letters' : is_some(known_letters'[i])})
                   = Cardinality({i \in DOMAIN in_word : ~Guessable(i)})
              /\ \A i \in DOMAIN in_word : Guessable(i) => is_none(known_letters'[i])
              /\ gallows' = "Start"
              /\ \A c \in DOMAIN letters' : ~letters'[c]
              /\ is_none(fate')
         ELSE pc' = "NoAlphabet"]_vars

\* A game has just been made of a word with one position revealed and one
\* hidden.
C7_Witness ==
    /\ Playing
    /\ response = None
    /\ \E i, j \in DOMAIN known_letters : is_some(known_letters[i]) /\ is_none(known_letters[j])

(***************************************************************************)
(* C8.  The known letters are as many as the word's characters, a revealed *)
(* position holds the word's character at that index, no revealed position *)
(* is hidden again or changed, and the word is never changed.              *)
(***************************************************************************)
C8_KnownLetters ==
    /\ [](Playing =>
            /\ Len(known_letters) = Len(word)
            /\ \A i \in DOMAIN known_letters :
                 is_some(known_letters[i]) => known_letters[i] = Some(word[i]))
    /\ [][Playing =>
            /\ word' = word
            /\ Len(known_letters') = Len(known_letters)
            /\ \A i \in DOMAIN known_letters :
                 is_some(known_letters[i]) => known_letters'[i] = known_letters[i]]_vars

\* A letter has been found after a mistake, in a word of which an earlier
\* guess had revealed another letter.
C8_Witness ==
    /\ Playing
    /\ response # None /\ response[1].kind = "GoodGuess"
    /\ gallows # "Start"
    /\ \E i \in DOMAIN known_letters :
         /\ word[i] \in DOMAIN letters
         /\ known_letters[i] = Some(word[i])
         /\ word[i] # response[1].guess

(***************************************************************************)
(* C9.  GoodGuess carries the number of positions of the word that hold    *)
(* the normalized guess, at least 1, and won is true iff this guess set    *)
(* fate to Won.  BadGuess carries lost = Some(the secret word) iff this    *)
(* guess moved the gallows to its last stage, fate then being Lost with    *)
(* the same word, and lost = None otherwise.                               *)
(***************************************************************************)
C9_Response ==
    [][Playing =>
         LET r == response'[1]
             reached_end == gallows # END /\ gallows' = END
         IN  /\ r.kind = "GoodGuess" =>
                  /\ r.count = Cardinality({i \in DOMAIN word : word[i] = Guessed})
                  /\ r.count >= 1
                  /\ r.won <=> (is_none(fate) /\ fate' = Some(Won))
             /\ r.kind = "BadGuess" =>
                  /\ r.lost = (IF reached_end THEN Some(Lost(word)) ELSE None)
                  /\ reached_end => fate' = Some(FateLost(r.lost[1]))]_vars

\* A letter that is in the word twice has been guessed.
C9_Witness ==
    /\ Playing
    /\ response # None /\ response[1].kind = "GoodGuess" /\ response[1].count = 2

(***************************************************************************)
(* C10.  guess(c) and guess(upper-case c) return the same response and     *)
(* leave the same state, the response carries the upper-cased character,   *)
(* characters other than lower-case ASCII letters are compared as they     *)
(* are, and new normalizes the word and the alphabet in the same way.      *)
(***************************************************************************)
C10_CaseInsensitive ==
    Playing =>
      /\ \A c \in GuessChars :
           /\ guess(Hangman, c) = guess(Hangman, AsciiUpper(c))
           /\ guess(Hangman, c).r.kind # "GameOver" => guess(Hangman, c).r.guess = AsciiUpper(c)
      /\ word = [i \in DOMAIN in_word |-> AsciiUpper(in_word[i])]
      /\ DOMAIN letters = {AsciiUpper(alphabet[j]) : j \in DOMAIN alphabet}

\* 'a' was typed and found, as 'A', in a word given in lower case.
C10_Witness ==
    /\ Playing
    /\ arg = Some(97)
    /\ response # None /\ response[1].kind = "GoodGuess" /\ response[1].guess = 65
    /\ 97 \in Range(in_word)

(***************************************************************************)
(* Vocabulary of the scenarios.                                            *)
(***************************************************************************)
\* The characters guessed so far, in order.
Typed == [i \in DOMAIN history |-> history[i].arg]

(***************************************************************************)
(* C11.  Word "CAB", alphabet A-Z, guesses C, A, Z, B: GoodGuess(count 1,  *)
(* not won), GoodGuess(count 1, not won), BadGuess that moves the gallows  *)
(* one stage and does not lose, GoodGuess(count 1, won), and fate is Won.  *)
(***************************************************************************)
C11_ScenarioCAB ==
    (in_word = CAB /\ Typed = <<67, 65, 90, 66>>) =>
      /\ history[1].r = GoodGuess(67, 1, FALSE)
      /\ history[2].r = GoodGuess(65, 1, FALSE)
      /\ history[2].gallows = "Start"
      /\ history[3].r = BadGuess(90, None)
      /\ GallowsIndex(history[3].gallows) = GallowsIndex(history[2].gallows) + 1
      /\ history[4].r = GoodGuess(66, 1, TRUE)
      /\ history[4].gallows = history[3].gallows
      /\ fate = Some(Won)

\* C, A, Z and B have been guessed in that order.
C11_Witness ==
    /\ in_word = CAB
    /\ Typed = <<67, 65, 90, 66>>
    /\ response = Some(history[4].r)

(***************************************************************************)
(* C12.  Word "GO", alphabet A-Z, guesses Q, W, X, Z, J, K: the gallows    *)
(* goes through AddHead, AddTorso, AddLeftArm, AddRightArm, AddLeftLeg and *)
(* AddRightLeg in that order, the first five answers carry no loss, and    *)
(* the sixth leaves fate Lost with the word ['G', 'O'].                    *)
(***************************************************************************)
C12_ScenarioGO ==
    (in_word = GO /\ Typed = <<81, 87, 88, 90, 74, 75>>) =>
      /\ [i \in 1..6 |-> history[i].gallows]
           = <<"AddHead", "AddTorso", "AddLeftArm", "AddRightArm", "AddLeftLeg", "AddRightLeg">>
      /\ \A i \in 1..5 : history[i].r = BadGuess(Typed[i], None)
      /\ history[6].r.kind = "BadGuess"
      /\ fate = Some(FateLost(Lost(<<71, 79>>)))

\* Q, W, X, Z, J and K have been guessed in that order.
C12_Witness ==
    /\ in_word = GO
    /\ Typed = <<81, 87, 88, 90, 74, 75>>
    /\ response = Some(history[6].r)

(***************************************************************************)
(* Vocabulary of the properties of a session.                              *)
(***************************************************************************)
\* The step reads an event in read_guess; the event it reads.
Reads == Reading /\ is_some(event')
Read == event'[1]

\* The step calls guess.
CallsGuess == ~(arg' = arg /\ response' = response)

\* A Screen exists and run has not returned.
ScreenHeld == cpc \in {"draw", "read", "pause"}

\* run returns in the step, the Screen having been made.
Exits == ScreenHeld /\ cpc' = "done"

\* Esc, or c with Control and nothing else.
CancelKey(ev) ==
    /\ ev.kind = "key"
    /\ \/ ev.code.key = "Esc"
       \/ (ev.code.key = "Char" /\ ev.code.ch = 99 /\ ev.modifiers = {"CONTROL"})

\* A key press that is neither a character with no modifier but Shift nor
\* a cancellation.
RejectedKey(ev) ==
    /\ ev.kind = "key"
    /\ ~CancelKey(ev)
    /\ (ev.code.key # "Char" \/ ~(ev.modifiers \subseteq {"SHIFT"}))

\* The step ends the session with the Write error and without a guess.
WriteFailed ==
    /\ wrote' = "failed"
    /\ cpc' = "done"
    /\ result' = Some("Write")

\* The step leaves game, Content and frame as they are, in read_guess.
StillReading ==
    /\ cpc' = cpc
    /\ result' = None
    /\ GameUnchanged
    /\ content' = content
    /\ frame' = frame

C14_Restored ==
    /\ [](ScreenHeld => term = TermOn /\ restore = << >> /\ result = None)
    /\ [][Exits =>
            /\ Len(restore') = 3
            /\ restore'[1].op = "Show"
            /\ restore'[2].op = "disable_raw_mode"
            /\ restore'[3].op = "LeaveAlternateScreen"
            /\ term'.cursor_hidden = ~restore'[1].ok
            /\ term'.raw_mode = ~restore'[2].ok
            /\ term'.alt_screen = ~restore'[3].ok
            /\ wrote' # "frame"
            /\ result' = IF wrote' = "failed" THEN Some("Write")
                         ELSE IF cpc # "draw" /\ is_none(event') THEN Some("Read")
                         ELSE Some("Ok")]_vars
    /\ [][cpc # "done"]_vars

\* A write failed and then disable_raw_mode failed: LeaveAlternateScreen
\* was tried all the same and the result is the Write error.
C14_Witness ==
    /\ cpc = "done"
    /\ result = Some("Write")
    /\ Len(restore) = 3
    /\ restore[1].ok
    /\ ~restore[2].ok
    /\ restore[3].ok
    /\ term = [alt_screen |-> FALSE, raw_mode |-> TRUE, cursor_hidden |-> FALSE]

(***************************************************************************)
(* C15: Esc or Ctrl-C read while waiting for input, in the loop or in      *)
(* pause, makes run return success at once: guess is not called and        *)
(* nothing is printed.                                                     *)
(***************************************************************************)
C15_Cancel ==
    [][(Reads /\ CancelKey(Read)) =>
           /\ cpc' = "done"
           /\ result' = Some("Ok")
           /\ ~CallsGuess
           /\ wrote' = "nothing"]_vars

\* Ctrl-C after a good guess, the game not over.
C15_Witness ==
    /\ cpc = "done"
    /\ event = Some(KeyPress(Char(99), {"CONTROL"}))
    /\ result = Some("Ok")
    /\ response # None
    /\ response[1].kind = "GoodGuess"
    /\ ~response[1].won

(***************************************************************************)
(* Vocabulary of the properties of the Screen.                             *)
(***************************************************************************)
\* A frame has been rendered; the latest draw has printed it.
Rendered == cpc \in {"draw", "read"}
Drawn == cpc = "read"

\* A text without its escape sequences.
RECURSIVE strip_ansi_from(_, _)
strip_ansi_from(s, i) ==
    IF i > Len(s) THEN << >>
    ELSE IF s[i] = 27 THEN strip_ansi_from(s, ansi_end(s, i) + 1)
    ELSE <<s[i]>> \o strip_ansi_from(s, i + 1)

Visible(s) == strip_ansi_from(s, 1)

\* The lines of the frame that are centred by their own width.
CentredLine(k) == is_none(frame[k].center_in_width)

Max(a, b) == IF a >= b THEN a ELSE b

\* The centring algorithm of the specification.
LineWidth(k) == IF CentredLine(k) THEN Len(Visible(frame[k].content)) ELSE 23

RECURSIVE WidestUpTo(_)
WidestUpTo(k) ==
    IF k = 0 THEN 23
    ELSE Max(WidestUpTo(k - 1), Len(Visible(frame[k].content)))

FrameWidth == WidestUpTo(Len(frame))
Indentation(k) == (FrameWidth - LineWidth(k)) \div 2
FrameMargin == IF columns > FrameWidth THEN (columns - FrameWidth) \div 2 ELSE 0

\* The alphabet of the game in ascending order of the codes, from 0.
Letter(i) ==
    CHOOSE k \in DOMAIN letters : Cardinality({other \in DOMAIN letters : other < k}) = i

\* The row of the frame that holds the letters of row r, from 0.
GridRow(r) == Visible(frame[3 + r].content)

(***************************************************************************)
(* C16: for every Content with at most 30 letter entries, render gives a   *)
(* Frame of exactly 13 lines: the hint ("Hint: <text>", or an empty line   *)
(* when there is none), a blank, 5 rows of gallows and letters, a blank,   *)
(* the word, a blank, the message, a blank, and a last line that is the    *)
(* exit prompt iff the message is Won or Lost and is empty otherwise.      *)
(***************************************************************************)
C16_FrameShape ==
    (Rendered /\ Len(content[1].guess_options) <= 30) =>
        LET c == content[1]
        IN  /\ Len(frame) = 13
            /\ frame[1].content = IF c.hint = None THEN << >> ELSE HintPrefix \o c.hint[1]
            /\ \A k \in {2, 8, 10, 12} : frame[k].content = << >>
            /\ \A k \in 3..7 : Len(Visible(frame[k].content)) >= 12
            /\ Len(Visible(frame[9].content)) = 2 * Len(c.word_display) - 1
            /\ frame[11].content = message_fmt(c.message)
            /\ frame[13].content = IF c.message.kind \in {"Won", "Lost"} THEN ExitPrompt ELSE << >>

\* A finished game with a hint is rendered on 13 lines, the prompt last.
C16_Witness ==
    /\ Rendered
    /\ content[1].message = MsgLost
    /\ is_some(content[1].hint)
    /\ Len(content[1].guess_options) = 26
    /\ Len(frame) = 13
    /\ frame[13].content = ExitPrompt

C18_InsideTerminal ==
    Drawn => \A k \in DOMAIN painted :
                /\ painted[k][1] < rows
                /\ painted[k][2] + Len(Visible(painted[k][3])) <= columns

(***************************************************************************)
(* C19: a frame of h lines in a terminal of r rows has its first line      *)
(* painted at row max(0, floor((r - h) / 2)), its k-th line at that row    *)
(* plus k, in the order of the frame, and only its first min(h, r) lines   *)
(* painted.                                                                *)
(***************************************************************************)
C19_Rows ==
    Drawn =>
        LET h == Len(frame)
            top == IF rows > h THEN (rows - h) \div 2 ELSE 0
        IN  /\ Len(painted) = IF h <= rows THEN h ELSE rows
            /\ \A k \in DOMAIN painted :
                 /\ painted[k][1] = top + (k - 1)
                 /\ painted[k][3] = truncate_str(frame[k].content, columns)

\* 13 lines in 15 rows start at row 1 and end at row 13.
C19_Witness ==
    /\ Drawn
    /\ rows = 15
    /\ Len(frame) = 13
    /\ Len(painted) = 13
    /\ painted[1][1] = 1
    /\ painted[13][1] = 13
    /\ painted[13][3] = ExitPrompt

(***************************************************************************)
(* C20: the grid lists the characters of the alphabet in ascending order   *)
(* of their codes, whatever the order and the repetitions of the alphabet  *)
(* string, 6 to a row with a space between them, after the 8 columns of    *)
(* the gallows and a gutter of 4; letter i is on row floor(i / 6) in slot  *)
(* i mod 6, a used letter is a blank in its own slot, and the rows beyond  *)
(* the 5 of the gallows start with 12 blanks.                              *)
(***************************************************************************)
C20_LetterGrid ==
    Rendered =>
        LET n == Cardinality(DOMAIN letters)
        IN  /\ Len(content[1].guess_options) = n
            /\ Len(frame) = 8 + Max(5, (n + 5) \div 6)
            /\ \A i \in 0..(n - 1) :
                 LET row == GridRow(i \div 6)
                     col == 12 + 2 * (i % 6)
                 IN  /\ Len(row) > col
                     /\ row[col + 1] = IF letters[Letter(i)] THEN 32 ELSE Letter(i)
                     /\ (i % 6 # 0) => row[col] = 32
                     /\ SubSeq(row, 9, 12) = <<32, 32, 32, 32>>
                     /\ (i \div 6 >= 5) => SubSeq(row, 1, 8) = <<32, 32, 32, 32, 32, 32, 32, 32>>
            /\ \A r \in 0..(Max(5, (n + 5) \div 6) - 1) :
                 Len(GridRow(r)) = 12 + (IF n >= 6 * (r + 1) THEN 11
                                        ELSE IF n > 6 * r THEN 2 * (n - 6 * r) - 1 ELSE 0)

\* The long alphabet, out of order and with 'A' twice, half of it used:
\* '0' is letter 0, the sixth row holds 'Z' alone after 12 blanks.
C20_Witness ==
    /\ Rendered
    /\ alphabet = LongAlphabet
    /\ Cardinality(DOMAIN letters) = 26 + ExtraLetters
    /\ \E c \in DOMAIN letters : letters[c]
    /\ \E c \in DOMAIN letters : ~letters[c]
    /\ Letter(0) = 48
    /\ Len(frame) = 14
    /\ GridRow(0)[13] = 48
    /\ GridRow(0)[15] = 32

(***************************************************************************)
(* Vocabulary of the properties of the art.                                *)
(***************************************************************************)
\* The art that the rendered Content asks for.
Art == draw_gallows(content[1].gallows, gallows_advanced(content[1].message))

\* What the frame holds of row k of the art: the text before the gutter.
RECURSIVE art_end(_, _, _)
art_end(s, i, seen) ==
    IF i > Len(s) \/ (seen = GALLOWS_WIDTH /\ s[i] # 27) THEN i - 1
    ELSE IF s[i] = 27 THEN art_end(s, ansi_end(s, i) + 1, seen)
    ELSE art_end(s, i + 1, seen + 1)

FrameArt(k) ==
    LET s == frame[2 + k].content IN SubSeq(s, 1, art_end(s, 1, 0))

(***************************************************************************)
(* C21: every stage of the gallows, highlighted or not, is drawn on        *)
(* exactly 5 rows, and every row is exactly 8 columns wide when the escape *)
(* sequences count for nothing and a drawing character for one column; the *)
(* rows of the frame hold these rows, followed by the gutter.              *)
(***************************************************************************)
C21_GallowsWidths ==
    Rendered =>
        /\ Len(Art) = GALLOWS_HEIGHT
        /\ \A k \in 1..GALLOWS_HEIGHT :
             /\ Len(Visible(Art[k])) = GALLOWS_WIDTH
             /\ measure_text_width(Art[k]) = GALLOWS_WIDTH
             /\ FrameArt(k) = Art[k]
             /\ SubSeq(Visible(frame[2 + k].content), GALLOWS_WIDTH + 1, GALLOWS_WIDTH + GUTTER)
                    = spaces(GUTTER)

\* The last stage, highlighted: the row of the legs holds 18 characters
\* before the gutter, 8 of them seen.
C21_Witness ==
    /\ Rendered
    /\ content[1].gallows = "AddRightLeg"
    /\ content[1].message = MsgLost
    /\ Len(FrameArt(4)) = 18
    /\ Len(Visible(FrameArt(4))) = 8
\* The emphasis of the part that a stage adds, and its end.
EmphOn == <<27, 91, 49, 59, 51, 49, 109>>
EmphOff == <<27, 91, 109>>

\* The stage before a stage, and the places (row, column) where the plain
\* art of a stage differs from that of the stage before it.
Pred(g) == CHOOSE p \in Range(Gallows) : succ(p) = Some(g)

Added(g) ==
    {x \in (1..GALLOWS_HEIGHT) \X (1..GALLOWS_WIDTH) :
        draw_gallows(g, FALSE)[x[1]][x[2]] # draw_gallows(Pred(g), FALSE)[x[1]][x[2]]}

\* Row k of a plain art with the character at column i emphasised.
Emphasised(row, i) ==
    SubSeq(row, 1, i - 1) \o EmphOn \o <<row[i]>> \o EmphOff \o SubSeq(row, i + 1, Len(row))

(***************************************************************************)
(* C22: the frame holds the highlighted art exactly when the message is    *)
(* BadGuess or Lost.  The highlighted art of a stage is its plain art with *)
(* the emphasis codes around the one character that the stage adds to the  *)
(* stage before it; the empty gallows has no highlighted art; and with any *)
(* other message (start, good guess, repeat, invalid guess, win) the rows  *)
(* of the art hold no escape sequence at all.                              *)
(***************************************************************************)
C22_Highlight ==
    Rendered =>
        LET c == content[1]
            plain == draw_gallows(c.gallows, FALSE)
        IN  /\ \A k \in 1..GALLOWS_HEIGHT : 27 \notin Range(plain[k])
            /\ IF c.message.kind \in {"BadGuess", "Lost"} /\ c.gallows # "Start"
               THEN /\ Cardinality(Added(c.gallows)) = 1
                    /\ LET at == CHOOSE x \in Added(c.gallows) : TRUE
                       IN  \A k \in 1..GALLOWS_HEIGHT :
                              FrameArt(k) = IF k = at[1] THEN Emphasised(plain[k], at[2])
                                            ELSE plain[k]
               ELSE \A k \in 1..GALLOWS_HEIGHT :
                      /\ FrameArt(k) = plain[k]
                      /\ 27 \notin Range(frame[2 + k].content)

\* After a bad guess that added the left arm, the arm alone is emphasised;
\* the head and the torso of the rows around it are not.
C22_Witness ==
    /\ Rendered
    /\ content[1].gallows = "AddLeftArm"
    /\ content[1].message.kind = "BadGuess"
    /\ Added("AddLeftArm") = {<<3, 6>>}
    /\ FrameArt(3) = <<32, 32, 9474, 32, 32>> \o EmphOn \o <<47>> \o EmphOff \o <<124, 32>>
    /\ 27 \notin Range(FrameArt(2))
\* The line of the frame that holds the word, and what a position of the
\* word is shown as.
WordRow == Len(frame) - 4

Shown(cd) ==
    CASE cd.kind = "Blank" -> <<95>>
      [] cd.kind = "Plain" -> <<cd.ch>>
      [] cd.kind = "Highlighted" -> <<27, 91, 49, 109, cd.ch, 27, 91, 109>>

RECURSIVE SpaceSeparated(_)
SpaceSeparated(wd) ==
    IF Len(wd) = 0 THEN << >>
    ELSE IF Len(wd) = 1 THEN Shown(wd[1])
    ELSE Shown(wd[1]) \o <<32>> \o SpaceSeparated(Tail(wd))

(***************************************************************************)
(* C23: the line of the word holds '_' for a hidden position, the          *)
(* character for a plain one and the character between emphasis codes for  *)
(* a highlighted one, with a space between positions, and it is painted at *)
(* the column that centres its 2n - 1 visible columns, n the number of     *)
(* positions: the escape sequences of highlighted positions do not move    *)
(* it.                                                                     *)
(***************************************************************************)
C23_WordColumn ==
    Drawn =>
        LET wd == content[1].word_display
            w == 2 * Len(wd) - 1
        IN  /\ frame[WordRow].content = SpaceSeparated(wd)
            /\ Len(Visible(frame[WordRow].content)) = w
            /\ WordRow \in DOMAIN painted =>
                  painted[WordRow][2] = IF columns > w THEN (columns - w) \div 2 ELSE 0

\* Three positions, one of them highlighted, in 50 columns: the line holds
\* 12 characters and is painted at column 22, as 5 columns are.
C23_Witness ==
    /\ Drawn
    /\ columns = 50
    /\ content[1].word_display = <<Plain(65), Highlighted(66), Blank>>
    /\ WordRow \in DOMAIN painted
    /\ Len(frame[WordRow].content) = 12
    /\ painted[WordRow][2] = 22
\* A step of Screen::update: a key has been read and the frame made anew.
Updates == cpc = "read" /\ cpc' = "read" /\ event' # event

Holding(g) == {i \in DOMAIN word : word[i] = g}

(***************************************************************************)
(* C25: whenever guess is called in an ongoing game with a character of    *)
(* the alphabet that has not been guessed, every position of the word that *)
(* holds the character is hidden when the call starts: the assertion       *)
(* `known.is_none()` of the loop holds at every position it is made for.   *)
(***************************************************************************)
C25_AssertionHolds ==
    [][(Ongoing /\ Fresh(Guessed)) =>
          \A i \in Holding(Guessed) : is_none(known_letters[i])]_vars

\* A guess has revealed two positions at once, both hidden until then.
C25_Witness ==
    /\ Playing
    /\ response # None
    /\ response[1].kind = "GoodGuess"
    /\ response[1].count = 2
    /\ Cardinality(Holding(normalize_char(arg[1]))) = 2
\* The stages that succ visits from g on, n of them at most.
RECURSIVE SuccChain(_, _)
SuccChain(g, n) ==
    IF n = 0 THEN << >>
    ELSE <<g>> \o (IF is_some(succ(g)) THEN SuccChain(succ(g)[1], n - 1) ELSE << >>)

\* The chain from Start, followed for one step more than there are stages.
Chain == SuccChain("Start", Len(Gallows) + 1)

(***************************************************************************)
(* C26: succ applied again and again from Start visits the seven stages in *)
(* the declared order, each once, and then stops; END is the last stage of *)
(* the chain and the only stage that has no successor; and the gallows of  *)
(* a game is always a stage of the chain.                                  *)
(***************************************************************************)
C26_SuccChain ==
    /\ Chain = <<"Start", "AddHead", "AddTorso", "AddLeftArm", "AddRightArm",
                 "AddLeftLeg", "AddRightLeg">>
    /\ Chain = Gallows
    /\ \A i, j \in DOMAIN Chain : Chain[i] = Chain[j] => i = j
    /\ Chain[Len(Chain)] = END
    /\ \A g \in Range(Gallows) : is_none(succ(g)) <=> g = END
    /\ Playing => gallows \in Range(Chain)

\* A game has walked the chain to its end.
C26_Witness ==
    /\ Playing
    /\ gallows = Chain[7]
    /\ is_none(succ(gallows))
    /\ is_some(fate)
\* The characters of the alphabet that are marked guessed, and those of
\* them that the word does not hold.
Marked == {c \in DOMAIN letters : letters[c]}
Misses == {c \in Marked : c \notin Range(word)}

(***************************************************************************)
(* C29: in every state of a game, position i of the word is revealed if    *)
(* and only if the character at i is outside the alphabet or is marked     *)
(* guessed; the hidden positions are exactly those that hold a character   *)
(* of the alphabet that has not been guessed; a revealed position shows    *)
(* the character of the word.                                              *)
(***************************************************************************)
C29_Revealed ==
    Playing =>
        /\ DOMAIN known_letters = DOMAIN word
        /\ \A i \in DOMAIN word :
             /\ is_some(known_letters[i]) <=> (~InAlphabet(word[i]) \/ letters[word[i]])
             /\ is_some(known_letters[i]) => known_letters[i] = Some(word[i])
        /\ {i \in DOMAIN word : is_none(known_letters[i])}
              = {i \in DOMAIN word : Fresh(word[i])}

\* An ongoing game with a position revealed by a guess and a position that
\* is still hidden.
C29_Witness ==
    /\ Ongoing
    /\ \E i, j \in DOMAIN word :
         /\ is_some(known_letters[i]) /\ word[i] \in Marked
         /\ is_none(known_letters[j]) /\ Fresh(word[j])

(***************************************************************************)
(* C30: in every state of a game, the index of the stage of the gallows,   *)
(* from 0 for Start to 6 for the last stage, is the number of characters   *)
(* of the alphabet that are marked guessed and that the word does not      *)
(* hold, and this number is never more than 6.                             *)
(***************************************************************************)
C30_GallowsCountsMisses ==
    Playing =>
        /\ GallowsIndex(gallows) - 1 = Cardinality(Misses)
        /\ Cardinality(Misses) <= 6

\* A lost game: six misses and a hit.
C30_Witness ==
    /\ Playing
    /\ gallows = END
    /\ Cardinality(Misses) = 6
    /\ Cardinality(Marked) = 7
(***************************************************************************)
(* Properties of the end of a session.                                     *)
(***************************************************************************)
\* A key press that read_guess returns as a character.
AcceptedChar(ev) == ev.kind = "key" /\ ~CancelKey(ev) /\ ~RejectedKey(ev)

\* run returns Ok(()) in the step.
EndsWell == cpc' = "done" /\ result' = Some("Ok")

C28_ContentShowsGame ==
    (cpc \in {"read", "pause"} /\ response # None) =>
        LET c == content[1]
            r == response[1]
            lost == is_some(fate) /\ fate[1].kind = "Lost"
        IN  /\ c.gallows = gallows
            /\ c.hint = hint
            /\ DOMAIN c.word_display = DOMAIN word
            /\ \A i \in DOMAIN word :
                 c.word_display[i] =
                    IF is_none(known_letters[i])
                    THEN (IF lost THEN Highlighted(word[i]) ELSE Blank)
                    ELSE IF r.kind = "GoodGuess" /\ word[i] = r.guess
                    THEN Highlighted(word[i])
                    ELSE Plain(word[i])
            /\ lost => \A i \in DOMAIN word : c.word_display[i].kind # "Blank"
            /\ c.message =
                 IF is_some(fate) THEN (IF lost THEN MsgLost ELSE MsgWon)
                 ELSE CASE r.kind = "GoodGuess" -> MsgGoodGuess(r.guess, r.count)
                        [] r.kind = "BadGuess" -> MsgBadGuess(r.guess)
                        [] r.kind = "AlreadyGuessed" -> MsgAlreadyGuessed(r.guess)
                        [] r.kind = "InvalidGuess" -> MsgInvalidGuess(r.guess)
            /\ Len(c.guess_options) = Cardinality(DOMAIN letters)
            /\ \A i \in DOMAIN c.guess_options :
                 c.guess_options[i] =
                    IF letters[Letter(i - 1)] THEN None ELSE Some(Letter(i - 1))

\* "a-B" lost after 'a' was found: A and '-' plain, B highlighted, and the
\* seven guessed letters empty in the list.
C28_Witness ==
    /\ cpc = "pause"
    /\ is_some(fate) /\ fate[1].kind = "Lost"
    /\ content[1].word_display = <<Plain(65), Plain(45), Highlighted(66)>>
    /\ content[1].message = MsgLost
    /\ Cardinality({i \in DOMAIN content[1].guess_options : content[1].guess_options[i] = None}) = 7
(***************************************************************************)
(* C31: in every state of a game, fate is Lost (with the word of the game) *)
(* if and only if the gallows is at its last stage, fate is Won if and     *)
(* only if every position of the word is revealed, and fate is absent      *)
(* otherwise; the two never hold together: a won game has its gallows      *)
(* before the last stage and a lost game has a hidden position.            *)
(***************************************************************************)
C31_FateMatchesState ==
    Playing =>
        /\ fate = Some(FateLost(Lost(word))) <=> gallows = END
        /\ fate = Some(Won) <=> AllRevealed(known_letters)
        /\ is_none(fate) <=> (gallows # END /\ ~AllRevealed(known_letters))
        /\ ~(gallows = END /\ AllRevealed(known_letters))
        /\ fate = Some(Won) => GallowsIndex(gallows) < GallowsIndex(END)
        /\ (is_some(fate) /\ fate[1].kind = "Lost") =>
              \E i \in DOMAIN word : is_none(known_letters[i])

\* A game won with five misses: the gallows is at the last stage but one.
C31_Witness ==
    /\ Playing
    /\ fate = Some(Won)
    /\ gallows = "AddLeftLeg"
    /\ AllRevealed(known_letters)
    /\ Cardinality(Misses) = 5

(***************************************************************************)
(* C32: every game ends.  No state of a game has every character of the    *)
(* alphabet marked guessed and no fate; a guess of a character that is not *)
(* marked marks one character more and is answered GoodGuess or BadGuess;  *)
(* so a player who keeps guessing such characters has Won or Lost with the *)
(* last character of the alphabet at the latest, and a fate is never       *)
(* anything but Won or Lost.                                               *)
(***************************************************************************)
C32_NeverExhausted ==
    /\ [](Playing =>
            /\ is_none(fate) => Marked # DOMAIN letters
            /\ is_some(fate) => fate[1].kind \in {"Won", "Lost"})
    /\ [][(Ongoing /\ Fresh(Guessed)) =>
            /\ Marked' = Marked \cup {Guessed}
            /\ Cardinality(Marked') = Cardinality(Marked) + 1
            /\ response'[1].kind \in {"GoodGuess", "BadGuess"}
            /\ Cardinality(Marked') = Cardinality(DOMAIN letters) => is_some(fate')]_vars

\* The last character of the alphabet that was left has won the game,
\* after a miss.
C32_Witness ==
    /\ Playing
    /\ Marked = DOMAIN letters
    /\ Misses # {}
    /\ fate = Some(Won)
    /\ response # None
    /\ response[1].kind = "GoodGuess"
(***************************************************************************)
(* Properties of Screen::new.                                              *)
(***************************************************************************)
\* Screen::new fails in the step: run returns at once.
NewFails == cpc = "run" /\ cpc' = "done"

\* What was tried to restore the terminal, in order.
Undone == [k \in DOMAIN restore' |-> restore'[k].op]

(***************************************************************************)
(* C33: when a step of Screen::new fails, run returns the Init error of    *)
(* that step and no Screen has been made; the steps completed before it    *)
(* are undone, last first: nothing after a failure of size or of           *)
(* EnterAlternateScreen, LeaveAlternateScreen after a failure of           *)
(* enable_raw_mode, disable_raw_mode and then LeaveAlternateScreen after a *)
(* failure of Hide; a mode stays on only where its undoing failed, the     *)
(* cursor is never hidden, and the error returned is the same whatever     *)
(* becomes of the undoing.  When no step fails the Screen is made with the *)
(* three modes on and nothing undone.                                      *)
(***************************************************************************)
C33_InitUndone ==
    /\ [][NewFails =>
            /\ content' = None /\ frame' = << >> /\ painted' = << >>
            /\ result' \in {Some(ScreenErrorInit(op)) :
                               op \in {"size", "EnterAlternateScreen", "enable_raw_mode", "Hide"}}
            /\ ~term'.cursor_hidden
            /\ result' \in {Some("Init(size)"), Some("Init(EnterAlternateScreen)")} =>
                  (Undone = << >> /\ term' = TermOff)
            /\ result' = Some("Init(enable_raw_mode)") =>
                  /\ Undone = <<"LeaveAlternateScreen">>
                  /\ ~term'.raw_mode
                  /\ term'.alt_screen = ~restore'[1].ok
            /\ result' = Some("Init(Hide)") =>
                  /\ Undone = <<"disable_raw_mode", "LeaveAlternateScreen">>
                  /\ term'.raw_mode = ~restore'[1].ok
                  /\ term'.alt_screen = ~restore'[2].ok]_vars
    /\ [][(cpc = "run" /\ cpc' # "run" /\ ~NewFails) =>
            (cpc' = "draw" /\ term' = TermOn /\ restore' = << >> /\ result' = None)]_vars

\* Hide failed and so did disable_raw_mode: the alternate screen was left
\* all the same, the raw mode is still on and the error is the one of Hide.
C33_Witness ==
    /\ cpc = "done"
    /\ result = Some("Init(Hide)")
    /\ restore = <<[op |-> "disable_raw_mode", ok |-> FALSE],
                   [op |-> "LeaveAlternateScreen", ok |-> TRUE]>>
    /\ term = [alt_screen |-> FALSE, raw_mode |-> TRUE, cursor_hidden |-> FALSE]
    /\ content = None
====
